---- MODULE Spec2Model ----
(***************************************************************************)
(* A model of the representation layer of vecbit: the span arithmetic of   *)
(* bit indices, the bit pointer, the domain classification of a pointer    *)
(* (src/src/domain.rs), the constructors of VecBit (src/src/vec.rs) and    *)
(* the single-bit access operations (src/src/access.rs).                   *)
(*                                                                         *)
(* pointer.rs, indices.rs, cursor.rs and slice.rs are not among the        *)
(* sources at hand.  What the model needs of them (span, BitPtr::new and   *)
(* its accessors, Cursor::mask, SliceBit::from_slice) is written from      *)
(* spec.md, sections 3, 4.1, 4.3, 4.4 and 6, and is marked so.             *)
(***************************************************************************)
EXTENDS Integers, Sequences, FiniteSets, TLC

VARIABLES
    width,      \* T::BITS of the storage type the build is instantiated with
    MAX_BITS,   \* BitPtr::<T>::MAX_BITS of that build (scaled down)
    call,       \* the last operation: its name, its arguments and how it ended
    pointer,    \* the BitPtr it produced (VecBit.pointer for a vector)
    capacity,   \* VecBit.capacity: the number of elements allocated
    domain,     \* the BitDomain last computed from pointer, or NoDomain
    spanned,    \* what the last evaluation of span returned: <<elements, tail>>
    order,      \* C: Cursor, the bit order the build is instantiated with
    elem,       \* one storage element behind T::Access, as the set of the
                \* bit positions that are 1 (position 0 the least significant)
    last,       \* the last access to elem: operation, index, value written,
                \* the mask it computed and elem before it
    origin,     \* elem when the threads were started
    thr,        \* per thread: its bit index, the operations it has done and
                \* the value its own operations leave in its bit
    mem,        \* the allocation of a vector: its capacity * width bits in
                \* order, the bit at position i (counted from 0, kept at
                \* index i + 1) being place i % width of element i \div width
    junk,       \* what memory reads as that was allocated and never written
    vop,        \* the last operation on the vector: name, arguments, outcome
    old,        \* the vector as the operation found it
    ret,        \* the bits the operation returned or its iterator yielded
    iter,       \* the Drain or Splice in flight, or NoIter
    other       \* the vector split_off returned

ptrVars == <<MAX_BITS, call, pointer, capacity, domain, spanned>>
accVars == <<order, elem, last>>
thrVars == <<origin, thr>>
vecVars == <<mem, junk, vop, old, ret, iter, other>>
vars == <<width, MAX_BITS, call, pointer, capacity, domain, spanned, order,
          elem, last, origin, thr, mem, junk, vop, old, ret, iter, other>>

(***************************************************************************)
(* Storage types and build constants                                       *)
(***************************************************************************)

\* T: BitStore is u8, u16, u32 or u64; T::BITS is its width.
Widths == {8, 16, 32, 64}

\* The scale of the model: the element count at which a pointer overflows.
MaxElts == 3

\* BitPtr::<T>::MAX_ELTS, scaled down to the model's size.
MAX_ELTS == MaxElts

\* The values MAX_BITS may have beside MAX_ELTS.  The spec says of the two
\* only that each is a width-specific maximum; whether MAX_ELTS full
\* elements still fit in MAX_BITS is left open, so both cases are built.
MaxBitsChoices(w) == {MAX_ELTS * w - 1, MAX_ELTS * w}

\* The byte alignment of an element of width w.
Alignment(w) == w \div 8

\* Base addresses handed to BitPtr::new: null, one aligned for every width,
\* one aligned for u8 only.
Bases == {0, 64, 65}

\* The base address of a Vec<T> buffer: never null, always aligned.
VecBase == 64

(***************************************************************************)
(* Index arithmetic                                                        *)
(***************************************************************************)

\* A run of n bits (n > 0) entered at position pos of the elts-th element
\* it touches: it ends in that element when the element has room for it,
\* and otherwise fills the element and goes on at position 0 of the next.
\* The result is <<elements touched, position one past the last bit>>.
RECURSIVE Walk(_, _, _, _)

\* Walk with the boundary test made strict: a run that fills its element
\* exactly is carried into the next one.
WalkStrict(w, elts, pos, n) ==
    IF n < w - pos THEN <<elts, pos + n>>
    ELSE Walk(w, elts + 1, 0, n - (w - pos))

Walk(w, elts, pos, n) ==
    IF n <= w - pos THEN <<elts, pos + n>>
    ELSE Walk(w, elts + 1, 0, n - (w - pos))

\* BitIdx::span(start, len): the number of elements a run of len bits that
\* starts at index start touches, and the tail of its last element.  A run
\* of no bits touches no element and its tail is start itself.
Span(w, start, len) ==
    IF len = 0 THEN <<0, start>> ELSE Walk(w, 1, start, len)

(***************************************************************************)
(* BitPtr                                                                  *)
(***************************************************************************)

\* What a failed construction leaves in the place of a pointer.
NoPtr == [ptr |-> 0, elts |-> 0, head |-> 0, tail |-> 0]

\* BitPtr::empty(): the canonical zero-length pointer.
BitPtrEmpty == [ptr |-> VecBase, elts |-> 0, head |-> 0, tail |-> 0]

\* BitPtr::uninhabited(ptr): a zero-length pointer over an allocation.
Uninhabited(ptr) == [ptr |-> ptr, elts |-> 0, head |-> 0, tail |-> 0]

\* Whether BitPtr::new(base, head, bits) is refused.
NewFails(w, maxbits, base, head, bits) ==
    \/ base = 0
    \/ base % Alignment(w) # 0
    \/ Span(w, head, bits)[1] > MAX_ELTS
    \/ bits > maxbits

\* BitPtr::new(base, head, bits) when it is not refused: the base address,
\* the element count, the head index and the tail.
New(w, base, head, bits) ==
    [ptr |-> base, elts |-> Span(w, head, bits)[1], head |-> head,
     tail |-> Span(w, head, bits)[2]]

\* BitPtr::head()
HeadOf(bp) == bp.head

\* BitPtr::tail()
TailOf(bp) == bp.tail

\* BitPtr::elements()
Elements(bp) == bp.elts

\* BitPtr::len(): the live bits implied by head, elements and tail.
LenOf(w, bp) ==
    IF bp.elts = 0 THEN 0 ELSE (bp.elts - 1) * w + bp.tail - bp.head

\* BitPtr::as_access_slice(): every touched element, by address, in order.
AsAccessSlice(w, bp) ==
    [k \in 1 .. bp.elts |-> bp.ptr + (k - 1) * Alignment(w)]

(***************************************************************************)
(* BitDomain                                                               *)
(***************************************************************************)

NoDomain ==
    [tag |-> "None", h |-> 0, head |-> <<>>, body |-> <<>>, tail |-> <<>>,
     t |-> 0]

\* A failed .expect() in BitDomain::from.
DomainPanic ==
    [tag |-> "Panic", h |-> 0, head |-> <<>>, body |-> <<>>, tail |-> <<>>,
     t |-> 0]

\* The variants of BitDomain.  An edge element is a sequence of one address.
Empty ==
    [tag |-> "Empty", h |-> 0, head |-> <<>>, body |-> <<>>, tail |-> <<>>,
     t |-> 0]
Minor(h, elt, t) ==
    [tag |-> "Minor", h |-> h, head |-> <<elt>>, body |-> <<>>,
     tail |-> <<>>, t |-> t]
Major(h, head, body, tail, t) ==
    [tag |-> "Major", h |-> h, head |-> <<head>>, body |-> body,
     tail |-> <<tail>>, t |-> t]
PartialHead(h, head, rest) ==
    [tag |-> "PartialHead", h |-> h, head |-> <<head>>, body |-> rest,
     tail |-> <<>>, t |-> 0]
PartialTail(rest, tail, t) ==
    [tag |-> "PartialTail", h |-> 0, head |-> <<>>, body |-> rest,
     tail |-> <<tail>>, t |-> t]
Spanning(data) ==
    [tag |-> "Spanning", h |-> 0, head |-> <<>>, body |-> data,
     tail |-> <<>>, t |-> 0]

\* slice::split_last, the slice without its last element.
Front(s) == SubSeq(s, 1, Len(s) - 1)

\* DomainSpan taken from index 0 instead of the pointer's head.
DomainSpanNoHead(w, bitptr) == Span(w, 0, LenOf(w, bitptr))

\* let (e, t) = h.span(bitptr.len())
DomainSpan(w, bitptr) == Span(w, HeadOf(bitptr), LenOf(w, bitptr))

\* The arm "reaches only the tail edge": split_first, or the expect fails.
ArmPartialHead(h, data) ==
    IF data = <<>> THEN DomainPanic
    ELSE PartialHead(h, Head(data), Tail(data))

\* The arm "reaches only the head edge": split_last, or the expect fails.
ArmPartialTail(data, t) ==
    IF data = <<>> THEN DomainPanic
    ELSE PartialTail(Front(data), data[Len(data)], t)

\* The arm "reaches neither edge, for only one element": &data[0].
ArmMinor(h, data, t) ==
    IF data = <<>> THEN DomainPanic ELSE Minor(h, data[1], t)

\* ArmMajor without the split_last: the interior keeps the tail element.
ArmMajorBodyKeepsTail(h, data, t) ==
    IF Len(data) < 2 THEN DomainPanic
    ELSE Major(h, Head(data), Tail(data), data[Len(data)], t)

\* ArmMajor with the tail index of a full element in place of t.
ArmMajorFullTail(h, data, t) ==
    IF Len(data) < 2 THEN DomainPanic
    ELSE Major(h, Head(data), Front(Tail(data)), data[Len(data)], 0)

\* The arm "reaches neither edge, for multiple elements": split_first, then
\* split_last of the rest; either expect may fail.
ArmMajor(h, data, t) ==
    IF Len(data) < 2 THEN DomainPanic
    ELSE Major(h, Head(data), Front(Tail(data)), data[Len(data)], t)

\* The match with the single-element arm moved before the two partial arms.
BitDomainFromMinorFirst(w, bitptr) ==
    LET h == HeadOf(bitptr)
        e == DomainSpan(w, bitptr)[1]
        t == DomainSpan(w, bitptr)[2]
        data == AsAccessSlice(w, bitptr)
    IN  IF e = 0 THEN Empty
        ELSE IF h = 0 /\ t = w THEN Spanning(data)
        ELSE IF e = 1 THEN ArmMinor(h, data, t)
        ELSE IF t = w THEN ArmPartialHead(h, data)
        ELSE IF h = 0 THEN ArmPartialTail(data, t)
        ELSE ArmMajor(h, data, t)

\* The match without the single-element arm.
BitDomainFromNoMinor(w, bitptr) ==
    LET h == HeadOf(bitptr)
        e == DomainSpan(w, bitptr)[1]
        t == DomainSpan(w, bitptr)[2]
        data == AsAccessSlice(w, bitptr)
    IN  IF e = 0 THEN Empty
        ELSE IF h = 0 /\ t = w THEN Spanning(data)
        ELSE IF t = w THEN ArmPartialHead(h, data)
        ELSE IF h = 0 THEN ArmPartialTail(data, t)
        ELSE ArmMajor(h, data, t)

\* impl From<BitPtr<T>> for BitDomain: the match on (*h, e, *t), arm by arm.
BitDomainFrom(w, bitptr) ==
    LET h == HeadOf(bitptr)
        e == DomainSpan(w, bitptr)[1]
        t == DomainSpan(w, bitptr)[2]
        data == AsAccessSlice(w, bitptr)
    IN  IF e = 0 THEN Empty
        ELSE IF h = 0 /\ t = w THEN Spanning(data)
        ELSE IF t = w THEN ArmPartialHead(h, data)
        ELSE IF h = 0 THEN ArmPartialTail(data, t)
        ELSE IF e = 1 THEN ArmMinor(h, data, t)
        ELSE ArmMajor(h, data, t)

(***************************************************************************)
(* Operations                                                              *)
(***************************************************************************)

NoCall == [op |-> "none", base |-> 0, head |-> 0, bits |-> 0, len |-> 0,
           result |-> "ok"]

\* The bit lengths tried: up to one element more than MAX_ELTS.
Lengths(w) == 0 .. (MAX_ELTS + 1) * w

\* BitPtr::new(base, head, bits), called on a fresh build.
BitPtrNew ==
    /\ call = NoCall
    /\ \E base \in Bases, head \in 0 .. width - 1, bits \in Lengths(width) :
          /\ call' = [op |-> "new", base |-> base, head |-> head,
                      bits |-> bits, len |-> 0,
                      result |-> IF NewFails(width, MAX_BITS, base, head, bits)
                                 THEN "err" ELSE "ok"]
          /\ pointer' = IF NewFails(width, MAX_BITS, base, head, bits)
                        THEN NoPtr ELSE New(width, base, head, bits)
          /\ spanned' = Span(width, head, bits)
    /\ capacity' = 0
    /\ domain' = NoDomain
    /\ UNCHANGED <<width, MAX_BITS, accVars, thrVars, vecVars>>

\* SliceBit::from_slice(&vec[..]).bitptr() for a slice of len elements: the
\* pointer over all of them, from index 0, validated as BitPtr::new does.
FromSliceFails(w, maxbits, len) == NewFails(w, maxbits, VecBase, 0, len * w)
FromSlice(w, len) == New(w, VecBase, 0, len * w)

\* from_vec with its assertion made strict: len < MAX_ELTS.
FromVecPanicsStrict(w, maxbits, len) ==
    \/ ~(len < MAX_ELTS)
    \/ FromSliceFails(w, maxbits, len)

\* Whether VecBit::from_vec(vec) panics, for a vector of len elements: the
\* assertion len <= MAX_ELTS, then the construction of the slice.
FromVecPanics(w, maxbits, len) ==
    \/ ~(len <= MAX_ELTS)
    \/ FromSliceFails(w, maxbits, len)

\* VecBit::from_vec(vec), for a vector of len elements whose buffer holds
\* len + spare.
FromVec ==
    /\ call = NoCall
    /\ \E len \in 0 .. MAX_ELTS + 1, spare \in 0 .. 1 :
          /\ call' = [op |-> "from_vec", base |-> VecBase, head |-> 0,
                      bits |-> len * width, len |-> len,
                      result |-> IF FromVecPanics(width, MAX_BITS, len)
                                 THEN "panic" ELSE "ok"]
          /\ pointer' = IF FromVecPanics(width, MAX_BITS, len)
                        THEN NoPtr ELSE FromSlice(width, len)
          /\ capacity' = IF FromVecPanics(width, MAX_BITS, len)
                         THEN 0 ELSE len + spare
          /\ spanned' = IF len <= MAX_ELTS
                        THEN Span(width, 0, len * width) ELSE spanned
    /\ domain' = NoDomain
    /\ UNCHANGED <<width, MAX_BITS, accVars, thrVars, vecVars>>

\* The element count VecBit::with_capacity(capacity) asks the allocator
\* for: let (cap, _) = 0u8.idx::<T>().span(capacity).
WithCapacityElements(w, cap) == Span(w, 0, cap)[1]

\* VecBit::with_capacity(capacity): an uninhabited pointer over a buffer of
\* at least that many elements (the allocator may give spare more).
WithCapacity ==
    /\ call = NoCall
    /\ \E cap \in Lengths(width), spare \in 0 .. 1 :
          /\ call' = [op |-> "with_capacity", base |-> VecBase, head |-> 0,
                      bits |-> cap, len |-> 0, result |-> "ok"]
          /\ capacity' = WithCapacityElements(width, cap) + spare
          /\ spanned' = Span(width, 0, cap)
    /\ pointer' = Uninhabited(VecBase)
    /\ domain' = NoDomain
    /\ UNCHANGED <<width, MAX_BITS, accVars, thrVars, vecVars>>

\* VecBit::capacity(): the bits the vector holds without reallocating.
Capacity(w, elts) == elts * w

\* BitPtr::domain(): classify the pointer at hand, whichever operation
\* built it (the empty pointer of VecBit::new() when none has).
Domain ==
    /\ call.result = "ok"
    /\ domain = NoDomain
    /\ domain' = BitDomainFrom(width, pointer)
    /\ spanned' = DomainSpan(width, pointer)
    /\ UNCHANGED <<width, MAX_BITS, call, pointer, capacity, accVars, thrVars, vecVars>>

(***************************************************************************)
(* Cursor and BitAccess                                                    *)
(***************************************************************************)

\* The two explicit Cursor implementations.
Orders == {"BigEndian", "LittleEndian"}

\* How many of the lowest and of the highest indices of an element the
\* model writes through.
PlaceSpan == 2

\* The indices written through: the first and the last PlaceSpan of them.
Places(w) == {i \in 0 .. w - 1 : i < PlaceSpan \/ i >= w - PlaceSpan}

\* T::bits(false) and T::bits(true): no bit and every bit of the element.
Bits(w, value) == IF value THEN 0 .. w - 1 ELSE {}

\* The element values an access starts from.
Seeds(w) == {Bits(w, FALSE), Bits(w, TRUE)}

\* 1 << k in an element of width w: bit k, or nothing when shifted out.
Shl1(w, k) == IF k \in 0 .. w - 1 THEN {k} ELSE {}

\* The big-endian mask counted from the wrong end of the most significant
\* bit: 1 << (w - place).
MaskOffByOne(c, w, place) ==
    IF c = "BigEndian" THEN Shl1(w, w - place) ELSE Shl1(w, place)

\* C::mask(place): BigEndian counts indices from the most significant bit
\* down, LittleEndian from the least significant bit up.
Mask(c, w, place) ==
    IF c = "BigEndian" THEN Shl1(w, (w - 1) - place) ELSE Shl1(w, place)

\* Radium::fetch_and, fetch_or, fetch_xor: the value the element holds
\* after the indivisible read-modify-write, and the complement !mask.
FetchAnd(v, m) == v \cap m
FetchOr(v, m) == v \cup m
FetchXor(v, m) == (v \ m) \cup (m \ v)
Not(w, m) == (0 .. w - 1) \ m

\* clear_bit with the mask itself in place of its complement.
ClearBitNoComplement(c, w, v, place) == FetchAnd(v, Mask(c, w, place))

\* BitAccess::clear_bit::<C>(place)
ClearBit(c, w, v, place) == FetchAnd(v, Not(w, Mask(c, w, place)))

\* BitAccess::set_bit::<C>(place)
SetBit(c, w, v, place) == FetchOr(v, Mask(c, w, place))

\* BitAccess::invert_bit::<C>(place)
InvertBit(c, w, v, place) == FetchXor(v, Mask(c, w, place))

\* BitAccess::get::<C>(place): load() & mask != T::bits(false)
Get(c, w, v, place) == (v \cap Mask(c, w, place)) # Bits(w, FALSE)

\* BitAccess::set::<C>(place, value)
Set(c, w, v, place, value) ==
    IF value THEN SetBit(c, w, v, place) ELSE ClearBit(c, w, v, place)

NoAccess ==
    [op |-> "none", place |-> 0, value |-> FALSE, mask |-> {}, before |-> {}]

\* The record of an access at place that found elem as it is now.
Access(op, place, value) ==
    [op |-> op, place |-> place, value |-> value,
     mask |-> Mask(order, width, place), before |-> elem]

AccessClearBit ==
    /\ \E place \in Places(width) :
          /\ elem' = ClearBit(order, width, elem, place)
          /\ last' = Access("clear_bit", place, FALSE)
    /\ UNCHANGED <<width, order, ptrVars, thrVars, vecVars>>

AccessSetBit ==
    /\ \E place \in Places(width) :
          /\ elem' = SetBit(order, width, elem, place)
          /\ last' = Access("set_bit", place, TRUE)
    /\ UNCHANGED <<width, order, ptrVars, thrVars, vecVars>>

AccessInvertBit ==
    /\ \E place \in Places(width) :
          /\ elem' = InvertBit(order, width, elem, place)
          /\ last' = Access("invert_bit", place, ~Get(order, width, elem, place))
    /\ UNCHANGED <<width, order, ptrVars, thrVars, vecVars>>

AccessSet ==
    /\ \E place \in Places(width), value \in BOOLEAN :
          /\ elem' = Set(order, width, elem, place, value)
          /\ last' = Access("set", place, value)
    /\ UNCHANGED <<width, order, ptrVars, thrVars, vecVars>>

\* A cursor asked for the mask of any index of the element.
AccessMask ==
    /\ last = NoAccess
    /\ \E place \in 0 .. width - 1 :
          last' = Access("mask", place, FALSE)
    /\ UNCHANGED <<width, order, elem, ptrVars, thrVars, vecVars>>

\* The longest run of bits pushed into the first element of a vector.
MaxRun == 8

\* VecBit::push(value) while the vector lives in its first element: the
\* element was pushed as 0, and the bit is written by self.set(len, value),
\* len being the number of bits pushed before.
AccessPush ==
    /\ last.op \in {"none", "mask", "push"}
    /\ last.op = "push" => last.place + 1 < width /\ last.place + 1 < MaxRun
    /\ \E value \in BOOLEAN :
          LET len == IF last.op = "push" THEN last.place + 1 ELSE 0
          IN  /\ elem' = Set(order, width, elem, len, value)
              /\ last' = Access("push", len, value)
    /\ UNCHANGED <<width, order, ptrVars, thrVars, vecVars>>

\* No operation on the vector yet.
NoOp ==
    [name |-> "none", a |-> 0, b |-> 0, value |-> FALSE, arg |-> <<>>,
     result |-> "ok"]

\* No Drain and no Splice alive.
NoIter ==
    [kind |-> "none", front |-> 0, back |-> 0, tail_start |-> 0,
     tail_len |-> 0, splice |-> <<>>]

\* What an operation returned: the bits its iterator yielded from the front
\* and from the back, each in the order yielded; pop's bit is a front bit.
NoRet == [bits |-> <<>>, back |-> <<>>]

\* VecBit::new(): the empty pointer, no allocation.  ok turns FALSE when an
\* operation on the vector panics.
NoVec == [pointer |-> BitPtrEmpty, capacity |-> 0, mem |-> <<>>, ok |-> TRUE]

\* The state when no vector is at work.
VecIdle ==
    /\ mem = <<>>
    /\ junk = FALSE
    /\ vop = NoOp
    /\ old = NoVec
    /\ ret = NoRet
    /\ iter = NoIter
    /\ other = NoVec

\* The state before any pointer operation: what VecBit::new() holds.
PtrIdle ==
    /\ call = NoCall
    /\ pointer = BitPtrEmpty
    /\ capacity = 0
    /\ domain = NoDomain
    /\ spanned = <<0, 0>>

\* The state when no element is being accessed.
AccIdle ==
    /\ order = "BigEndian"
    /\ elem = {}
    /\ last = NoAccess
    /\ origin = {}
    /\ thr = <<>>

Init ==
    /\ width \in Widths
    /\ MAX_BITS \in MaxBitsChoices(width)
    /\ PtrIdle
    /\ AccIdle
    /\ VecIdle

Next ==
    \/ BitPtrNew
    \/ Domain
    \/ FromVec
    \/ WithCapacity

Spec == Init /\ [][Next]_vars

InitAccess ==
    /\ width \in Widths
    /\ MAX_BITS = MAX_ELTS * width
    /\ PtrIdle
    /\ order \in Orders
    /\ elem \in Seeds(width)
    /\ last = NoAccess
    /\ origin = {}
    /\ thr = <<>>
    /\ VecIdle

NextAccess ==
    \/ AccessClearBit
    \/ AccessSetBit
    \/ AccessInvertBit
    \/ AccessSet

\* A vector's first element, zeroed, and the cursor of the build.
InitCursor ==
    /\ width \in Widths
    /\ MAX_BITS = MAX_ELTS * width
    /\ PtrIdle
    /\ order \in Orders
    /\ elem = Bits(width, FALSE)
    /\ last = NoAccess
    /\ origin = {}
    /\ thr = <<>>
    /\ VecIdle

NextCursor ==
    \/ AccessMask
    \/ AccessPush

SpecCursor == InitCursor /\ [][NextCursor]_vars

SpecAccess == InitAccess /\ [][NextAccess]_vars

(***************************************************************************)
(* BitAccess with whole masks (src/src/access.rs)                          *)
(***************************************************************************)

\* The masks handed to set_bits and clear_bits: none and all of the bits,
\* one bit at either end, the edge places, their complement, every other bit.
Masks(w) ==
    {{}, Bits(w, TRUE), {0}, {w - 1}, Places(w), Bits(w, TRUE) \ Places(w),
     {i \in 0 .. w - 1 : i % 2 = 0}}

\* clear_bits with the complement of the mask, as clear_bit takes it.
ClearBitsComplement(w, v, mask) == FetchAnd(v, Not(w, mask))

\* BitAccess::clear_bits(mask): fetch_and(mask, Relaxed).
ClearBits(w, v, mask) == FetchAnd(v, mask)

\* BitAccess::set_bits(mask): fetch_or(mask, Relaxed).
SetBits(w, v, mask) == FetchOr(v, mask)

\* The record of a whole-mask access that found elem as it is now.
MaskAccess(op, mask) ==
    [op |-> op, place |-> 0, value |-> op = "set_bits", mask |-> mask,
     before |-> elem]

AccessSetBits ==
    /\ \E mask \in Masks(width) :
          /\ elem' = SetBits(width, elem, mask)
          /\ last' = MaskAccess("set_bits", mask)
    /\ UNCHANGED <<width, order, ptrVars, thrVars, vecVars>>

AccessClearBits ==
    /\ \E mask \in Masks(width) :
          /\ elem' = ClearBits(width, elem, mask)
          /\ last' = MaskAccess("clear_bits", mask)
    /\ UNCHANGED <<width, order, ptrVars, thrVars, vecVars>>

NextMasks ==
    \/ AccessSetBits
    \/ AccessClearBits

SpecMasks == InitAccess /\ [][NextMasks]_vars

(***************************************************************************)
(* VecBit: the vector over its allocation (src/src/vec.rs)                 *)
(*                                                                         *)
(* A vector is the record of its pointer, its capacity in elements and the *)
(* memory of its allocation.  The pointer's mutators and the slice's       *)
(* single-bit methods are in pointer.rs and slice.rs, which are not among  *)
(* the sources; they follow spec.md 4.4 and the names they are called by.  *)
(***************************************************************************)

\* for i in a .. b (b excluded), in rising order: m = Body(m, i).  The range
\* is halved so that a long loop nests no deeper than its logarithm; the
\* comparison makes the first half be worked out before the second begins.
RECURSIVE ForRange(_, _, _, _)
ForRange(Body(_, _), a, b, m) ==
    IF b <= a THEN m
    ELSE IF b = a + 1 THEN Body(m, a)
    ELSE LET mid == (a + b) \div 2
             left == ForRange(Body, a, mid, m)
         IN  IF left = left THEN ForRange(Body, mid, b, left) ELSE left

\* for i in (a .. b).rev(): the same range in falling order.
ForRangeRev(Body(_, _), a, b, m) ==
    LET Mirror(x, k) == Body(x, a + b - 1 - k)
    IN  ForRange(Mirror, a, b, m)

\* The vector at hand.
Bv == [pointer |-> pointer, capacity |-> capacity, mem |-> mem, ok |-> TRUE]

\* A panic: the vector stays as the panic found it.
Panic(v) == [v EXCEPT !.ok = FALSE]

\* SliceBit::len and is_empty, through the pointer.
BvLen(w, v) == LenOf(w, v.pointer)
IsEmpty(w, v) == BvLen(w, v) = 0

\* BitPtr::set_len(n): element count and tail recomputed by span from the
\* head; base and head stay.
SetLenPtr(w, bp, n) ==
    LET s == Span(w, bp.head, n)
    IN  [bp EXCEPT !.elts = s[1], !.tail = s[2]]

\* BitPtr::incr_tail(): one more live bit.
IncrTail(w, bp) ==
    IF bp.elts = 0 THEN [bp EXCEPT !.elts = 1, !.tail = bp.head + 1]
    ELSE IF bp.tail = w THEN [bp EXCEPT !.elts = bp.elts + 1, !.tail = 1]
    ELSE [bp EXCEPT !.tail = bp.tail + 1]

\* incr_tail fails fast when the pointer it would make breaks a maximum.
IncrTailFails(w, maxbits, bp) ==
    \/ LenOf(w, bp) + 1 > maxbits
    \/ IncrTail(w, bp).elts > MAX_ELTS

\* BitPtr::decr_tail(): one live bit fewer, of a pointer that has one.
DecrTail(w, bp) ==
    IF bp.elts = 1 /\ bp.tail = bp.head + 1
    THEN [bp EXCEPT !.elts = 0, !.tail = bp.head]
    ELSE IF bp.tail = 1 THEN [bp EXCEPT !.elts = bp.elts - 1, !.tail = w]
    ELSE [bp EXCEPT !.tail = bp.tail - 1]

\* n bits of one value.
Fill0(n, value) == [k \in 1 .. n |-> value]

\* How far a reallocation moves the buffer.
ReallocStep == 64

\* The allocation grown to newcap elements: the buffer moves, what it held
\* is copied, and the elements gained read as junk.
VecGrow(w, v, newcap) ==
    [v EXCEPT !.capacity = newcap,
              !.pointer = [v.pointer EXCEPT !.ptr = v.pointer.ptr + ReallocStep],
              !.mem = v.mem \o Fill0((newcap - v.capacity) * w, junk)]

\* do_unto_vec(|v| v.reserve(e)) and v.reserve_exact(e): the Vec is rebuilt
\* with the pointer's element count as its length; it grows only when its
\* spare capacity is short, reserve at least doubling.
VecReserve(w, v, e, exact) ==
    LET need == v.pointer.elts + e
    IN  IF v.capacity - v.pointer.elts >= e THEN v
        ELSE IF exact \/ need >= 2 * v.capacity THEN VecGrow(w, v, need)
        ELSE VecGrow(w, v, 2 * v.capacity)

\* do_unto_vec(|v| v.push(0)): the element after the pointer's last one is
\* written as zero, whatever it held.
ZeroElement(w, g, k) ==
    [g EXCEPT !.mem = SubSeq(g.mem, 1, k * w) \o Fill0(w, FALSE)
                          \o SubSeq(g.mem, k * w + w + 1, Len(g.mem))]

VecPush(w, v) == ZeroElement(w, VecReserve(w, v, 1, FALSE), v.pointer.elts)

\* self[i]: the bit at position i of the allocation.
At(v, i) == v.mem[i + 1]

\* The bits [a, b) of the allocation, in order.
BitsOf(v, a, b) == SubSeq(v.mem, a + 1, b)

\* The live bits of the vector, in order.
Content(w, v) == BitsOf(v, 0, BvLen(w, v))

\* SliceBit::set(i, value): panics when i is not a live index.
SetAt(w, v, i, value) ==
    IF ~v.ok THEN v
    ELSE IF ~(i < BvLen(w, v)) THEN Panic(v)
    ELSE [v EXCEPT !.mem = [v.mem EXCEPT ![i + 1] = value]]

\* SliceBit::swap(a, b): panics when either is not a live index.
Swap(w, v, a, b) ==
    IF ~v.ok THEN v
    ELSE IF ~(a < BvLen(w, v) /\ b < BvLen(w, v)) THEN Panic(v)
    ELSE [v EXCEPT !.mem = [v.mem EXCEPT ![a + 1] = At(v, b),
                                         ![b + 1] = At(v, a)]]

\* push's guard: assert!(len <= MAX_BITS).
PushPanics(maxbits, len) == ~(len <= maxbits)

\* The end of push that writes the bit at its index within an element.
PushBitInElement(w, maxbits, grown, len, value) ==
    IF IncrTailFails(w, maxbits, grown.pointer) THEN Panic(grown)
    ELSE SetAt(w, [grown EXCEPT !.pointer = IncrTail(w, grown.pointer)],
               len % w, value)

\* The end of push, grown being the vector after the element push, if
\* any: incr_tail, then self.set(len, value).
PushBit(w, maxbits, grown, len, value) ==
    IF IncrTailFails(w, maxbits, grown.pointer) THEN Panic(grown)
    ELSE SetAt(w, [grown EXCEPT !.pointer = IncrTail(w, grown.pointer)],
               len, value)

\* VecBit::push(value).
Push(w, maxbits, v, value) ==
    IF ~v.ok THEN v
    ELSE IF PushPanics(maxbits, BvLen(w, v)) THEN Panic(v)
    ELSE PushBit(w, maxbits,
                 IF IsEmpty(w, v) \/ TailOf(v.pointer) = w
                 THEN VecPush(w, v)
                 ELSE v,
                 BvLen(w, v), value)

\* VecBit::pop(): the vector it leaves (the bit it returns is the last one).
Pop(w, v) ==
    IF IsEmpty(w, v) THEN v
    ELSE [v EXCEPT !.pointer = DecrTail(w, v.pointer)]

\* VecBit::truncate(len).
Truncate(w, v, len) ==
    IF ~v.ok THEN v
    ELSE IF len < BvLen(w, v)
    THEN [v EXCEPT !.pointer = SetLenPtr(w, v.pointer, len)]
    ELSE v

\* set_len without the assert on the allocation.
VecSetLenAnyCapacity(w, maxbits, v, len) ==
    IF ~v.ok THEN v
    ELSE IF ~(len <= maxbits) THEN Panic(v)
    ELSE [v EXCEPT !.pointer = SetLenPtr(w, v.pointer, len)]

\* VecBit::set_len(len): both asserts, then the pointer's set_len.
VecSetLen(w, maxbits, v, len) ==
    IF ~v.ok THEN v
    ELSE IF ~(len <= maxbits) THEN Panic(v)
    ELSE IF ~(len <= Capacity(w, v.capacity)) THEN Panic(v)
    ELSE [v EXCEPT !.pointer = SetLenPtr(w, v.pointer, len)]

\* VecBit::clear().
Clear(w, maxbits, v) == VecSetLen(w, maxbits, v, 0)

\* The span of reserve with the tail checked as an index is: a tail equal
\* to the width is refused.
ReserveSpanOfIndex(w, v, additional) ==
    IF ~(TailOf(v.pointer) < w) THEN <<0, 0>>
    ELSE Span(w, TailOf(v.pointer), additional)

\* self.pointer.tail().span(additional), as reserve evaluates it.
ReserveSpan(w, v, additional) == Span(w, TailOf(v.pointer), additional)

\* reserve without the elements of the bits already live in the count.
ReserveElementsShort(w, v, additional) ==
    Span(w, 0, additional)[1] - v.pointer.elts

\* The elements reserve asks of the Vec: self.pointer.tail().span(additional).
ReserveElements(w, v, additional) == ReserveSpan(w, v, additional)[1]

\* VecBit::reserve(additional) and reserve_exact(additional).
Reserve(w, maxbits, v, additional, exact) ==
    IF ~v.ok THEN v
    ELSE IF ~(BvLen(w, v) + additional <= maxbits) THEN Panic(v)
    ELSE VecReserve(w, v, ReserveElements(w, v, additional), exact)

\* iter.for_each(|b| self.push(b)) over the bits of a finite stream.
PushAll(w, maxbits, v, bits) ==
    LET PushNth(x, k) == Push(w, maxbits, x, bits[k])
    IN  ForRange(PushNth, 1, Len(bits) + 1, v)

\* Extend::extend(src): the size hint of a finite stream is its length.
Extend(w, maxbits, v, bits) ==
    PushAll(w, maxbits, Reserve(w, maxbits, v, Len(bits), FALSE), bits)

\* VecBit::resize(new_len, value).
Resize(w, maxbits, v, new_len, value) ==
    LET len == BvLen(w, v)
    IN  IF new_len < len THEN Truncate(w, v, new_len)
        ELSE IF new_len > len
        THEN Extend(w, maxbits, v, Fill0(new_len - len, value))
        ELSE v

\* self[index ..].rotate_left(1): the bit at index goes last, the bits
\* after it come one place down.
RotateLeft(w, v, index) ==
    LET len == BvLen(w, v)
    IN  [v EXCEPT !.mem = BitsOf(v, 0, index) \o BitsOf(v, index + 1, len)
                              \o <<At(v, index)>>
                              \o BitsOf(v, len, Len(v.mem))]

\* self[index ..].rotate_right(1): the last bit comes to index, the bits
\* from index on go one place up.
RotateRight(w, v, index) ==
    LET len == BvLen(w, v)
    IN  [v EXCEPT !.mem = BitsOf(v, 0, index) \o <<At(v, len - 1)>>
                              \o BitsOf(v, index, len - 1)
                              \o BitsOf(v, len, Len(v.mem))]

\* VecBit::remove(index).
Remove(w, v, index) ==
    IF ~(index < BvLen(w, v)) THEN Panic(v)
    ELSE Pop(w, RotateLeft(w, v, index))

\* VecBit::insert(index, value).
Insert(w, maxbits, v, index, value) ==
    IF ~(index <= BvLen(w, v)) THEN Panic(v)
    ELSE LET pushed == Push(w, maxbits, v, value)
         IN  IF pushed.ok THEN RotateRight(w, pushed, index) ELSE pushed

\* Where the allocation of a second vector lies.
OtherBase == 1024

\* VecBit::with_capacity(capacity) as a value: a buffer of the elements
\* span counts, never written, under an uninhabited pointer.
WithCapacityVec(w, cap) ==
    [pointer |-> Uninhabited(OtherBase),
     capacity |-> WithCapacityElements(w, cap),
     mem |-> Fill0(WithCapacityElements(w, cap) * w, junk),
     ok |-> TRUE]

\* FromIterator::from_iter(src) for a finite stream of known length.
FromIter(w, maxbits, bits) ==
    PushAll(w, maxbits, WithCapacityVec(w, Len(bits)), bits)

\* from_bitslice that copies the elements the slice touches, from the
\* first bit of the first of them.
FromBitsliceWholeElements(w, maxbits, v, a, b) ==
    FromIter(w, maxbits, BitsOf(v, (a \div w) * w, (a \div w) * w + (b - a)))

\* VecBit::from_bitslice(&v[a .. b]), which also powers to_owned: the bits
\* the slice's iterator yields are collected; the range must lie in v.
FromBitslice(w, maxbits, v, a, b) ==
    IF ~(a <= b /\ b <= BvLen(w, v)) THEN Panic(NoVec)
    ELSE FromIter(w, maxbits, BitsOf(v, a, b))

\* split_off that hands out the bits after at, one too few.
SplitOffSkipsOne(w, maxbits, v, at) ==
    LET len == BvLen(w, v)
    IN  IF ~(at <= len) THEN [self |-> Panic(v), out |-> NoVec]
        ELSE IF at = 0 THEN [self |-> NoVec, out |-> v]
        ELSE IF at = len THEN [self |-> v, out |-> NoVec]
        ELSE [self |-> Truncate(w, v, at),
              out |-> FromIter(w, maxbits, BitsOf(v, at + 1, len))]

\* VecBit::split_off(at): what is left in self and what is returned.
SplitOff(w, maxbits, v, at) ==
    LET len == BvLen(w, v)
    IN  IF ~(at <= len) THEN [self |-> Panic(v), out |-> NoVec]
        ELSE IF at = 0 THEN [self |-> NoVec, out |-> v]
        ELSE IF at = len THEN [self |-> v, out |-> NoVec]
        ELSE [self |-> Truncate(w, v, at),
              out |-> FromIter(w, maxbits, BitsOf(v, at, len))]

\* SliceBit::set_all(value) over the live bits.
SetAll(w, v, value) ==
    [v EXCEPT !.mem = Fill0(BvLen(w, v), value)
                          \o BitsOf(v, BvLen(w, v), Len(v.mem))]

\* ShlAssign::shl_assign(shamt): towards the front, the length shrinks.
ShlAssign(w, maxbits, v, shamt) ==
    LET len == BvLen(w, v)
        trunc == len - shamt
        Move(x, idx) == SetAt(w, x, idx - shamt, At(x, idx))
        Zero(x, idx) == SetAt(w, x, idx, FALSE)
    IN  IF shamt >= len THEN Clear(w, maxbits, SetAll(w, v, FALSE))
        ELSE Truncate(w,
                 ForRange(Zero, trunc, len, ForRange(Move, shamt, len, v)),
                 trunc)

\* shr_assign that moves the old bits front to back.
ShrAssignForward(w, maxbits, v, shamt) ==
    LET old_len == BvLen(w, v)
        pushed == PushAll(w, maxbits, v, Fill0(shamt, FALSE))
        Move(x, idx) == SetAt(w, x, idx + shamt, At(x, idx))
        Zero(x, idx) == SetAt(w, x, idx, FALSE)
    IN  ForRange(Zero, 0, shamt, ForRange(Move, 0, old_len, pushed))

\* ShrAssign::shr_assign(shamt): towards the back, the length grows.
ShrAssign(w, maxbits, v, shamt) ==
    LET old_len == BvLen(w, v)
        pushed == PushAll(w, maxbits, v, Fill0(shamt, FALSE))
        Move(x, idx) == SetAt(w, x, idx + shamt, At(x, idx))
        Zero(x, idx) == SetAt(w, x, idx, FALSE)
    IN  ForRange(Zero, 0, shamt, ForRangeRev(Move, 0, old_len, pushed))

(***************************************************************************)
(* Drain and Splice (src/src/vec.rs)                                       *)
(***************************************************************************)

\* VecBit::drain(from .. upto): whether its asserts refuse the range.
DrainPanics(len, from, upto) == ~(from <= upto) \/ ~(upto <= len)

\* The Drain that VecBit::drain(from .. upto) builds over a vector of len
\* bits; the iterator runs over the positions [front, back).
DrainOf(len, from, upto) ==
    [kind |-> "drain", front |-> from, back |-> upto, tail_start |-> upto,
     tail_len |-> len - upto, splice |-> <<>>]

\* Drain::drop that moves the tail down from one place too far.
DrainDropOffByOne(w, maxbits, v, d) ==
    LET start == BvLen(w, v)
        full_len == d.tail_start + d.tail_len
        end_len == start + d.tail_len
        Down(x, i) == Swap(w, x, d.tail_start + i + 1, start + i)
    IN  VecSetLen(w, maxbits,
            ForRange(Down, 0, d.tail_len,
                     VecSetLen(w, maxbits, v, full_len)),
            end_len)

\* impl Drop for Drain: the vector is inflated over the tail, the tail is
\* swapped down into the drained span, and the vector is deflated to fit.
DrainDrop(w, maxbits, v, d) ==
    LET start == BvLen(w, v)
        full_len == d.tail_start + d.tail_len
        end_len == start + d.tail_len
        Down(x, i) == Swap(w, x, d.tail_start + i, start + i)
    IN  VecSetLen(w, maxbits,
            ForRange(Down, 0, d.tail_len,
                     VecSetLen(w, maxbits, v, full_len)),
            end_len)

\* The tail swapped down to n, where a stream ended short of the span.
FillShort(w, v, d, n) ==
    LET Down(x, i) == Swap(w, x, d.tail_start + i, n + i)
    IN  [v |-> ForRange(Down, 0, d.tail_len, v),
         d |-> [d EXCEPT !.tail_start = n],
         stream |-> <<>>, filled |-> FALSE]

\* The end of fill: k bits of the stream were pushed, and that filled the
\* span or the stream ended.
Filled(w, pushed, d, stream, k, room) ==
    IF k = room
    THEN [v |-> pushed, d |-> d,
          stream |-> SubSeq(stream, k + 1, Len(stream)), filled |-> TRUE]
    ELSE FillShort(w, pushed, d, BvLen(w, pushed))

\* The bits of the stream that a span of room bits takes.
Taken(stream, room) ==
    IF room < 0 THEN 0 ELSE IF Len(stream) < room THEN Len(stream) ELSE room

\* Drain::fill(stream): bits are pushed until the drained span is full; a
\* stream that ends first has the tail swapped down to where it ended.
\* It gives the vector, the drain, what is left of the stream, and whether
\* the span was filled.
Fill(w, maxbits, v, d, stream) ==
    Filled(w,
           PushAll(w, maxbits, v,
                   SubSeq(stream, 1, Taken(stream, d.tail_start - BvLen(w, v)))),
           d, stream,
           Taken(stream, d.tail_start - BvLen(w, v)),
           IF d.tail_start > BvLen(w, v) THEN d.tail_start - BvLen(w, v) ELSE 0)

\* The end of move_tail, reserved being the vector after reserve(by).
MoveTailUp(w, maxbits, reserved, d, by) ==
    LET Up(x, n) == Swap(w, x, d.tail_start + n, d.tail_start + by + n)
    IN  [v |-> VecSetLen(w, maxbits,
                   ForRangeRev(Up, 0, d.tail_len,
                               VecSetLen(w, maxbits, reserved,
                                         d.tail_start + d.tail_len + by)),
                   BvLen(w, reserved)),
         d |-> [d EXCEPT !.tail_start = d.tail_start + by]]

\* Drain::move_tail(by): room is reserved and the tail swapped up by it.
MoveTail(w, maxbits, v, d, by) ==
    MoveTailUp(w, maxbits, Reserve(w, maxbits, v, by, FALSE), d, by)

\* move_tail(by) and fill(stream), on what an earlier fill f left.
MoveAndFill(w, maxbits, m, stream) == Fill(w, maxbits, m.v, m.d, stream)

\* The last step of Splice::drop: what is left of the replacement is
\* collected, the tail moved by its length, and the span filled.
SpliceRemnant(w, maxbits, f) ==
    IF ~f.filled \/ Len(f.stream) = 0 THEN f
    ELSE MoveAndFill(w, maxbits,
                     MoveTail(w, maxbits, f.v, f.d, Len(f.stream)), f.stream)

\* The step before it: the tail is moved by the lower size hint, if any.
SpliceLower(w, maxbits, f, lower) ==
    IF ~f.filled \/ lower = 0 THEN f
    ELSE MoveAndFill(w, maxbits, MoveTail(w, maxbits, f.v, f.d, lower),
                     f.stream)

\* The size hint's lower bound of what is left of the replacement.
Lower(f, hinted) == IF hinted THEN Len(f.stream) ELSE 0

\* impl Drop for Splice, up to the drop of its Drain: the vector and the
\* drain its steps leave.  hinted says whether the replacement reports its
\* length as its size hint; one that does not reports a lower bound of 0.
SpliceFilled(w, maxbits, f, hinted) ==
    SpliceRemnant(w, maxbits, SpliceLower(w, maxbits, f, Lower(f, hinted)))

SpliceFill(w, maxbits, v, d, stream, hinted) ==
    IF d.tail_len = 0
    THEN [v |-> IF hinted THEN Extend(w, maxbits, v, stream)
                ELSE PushAll(w, maxbits, v, stream),
          d |-> d]
    ELSE SpliceFilled(w, maxbits, Fill(w, maxbits, v, d, stream), hinted)

\* Drain::drop on what Splice::drop left.
DropFilled(w, maxbits, f) == DrainDrop(w, maxbits, f.v, f.d)

\* Dropping a Splice: its own drop, then the drop of the Drain it holds.
SpliceDrop(w, maxbits, v, d, stream, hinted) ==
    DropFilled(w, maxbits, SpliceFill(w, maxbits, v, d, stream, hinted))

(***************************************************************************)
(* Vectors to start from, and one operation on each                        *)
(***************************************************************************)

\* The bit a vector starts with at position i: no shift maps the pattern
\* onto itself.
Pattern(i) == (i % 5 = 3) \/ (\E k \in 0 .. i : k * k = i)

\* The k-th bit (from 1) of a stream handed to the vector.
StreamBit(k) == k % 3 # 0

\* A stream of n bits.
Stream(n) == [k \in 1 .. n |-> StreamBit(k)]

\* Lengths and positions at the edges of the elements, up to hi.
EdgeMarks(w, hi) == {n \in 0 .. hi : n % w \in {0, 1, w - 1}} \cup {hi}

\* Positions to call an operation with on a vector of len bits: at its
\* ends, at the first element boundary, and one past its length.
Near(w, len) == {0, 1, w, len - 1, len, len + 1} \cap (0 .. len + 1)

\* A vector of len bits, as pushes, pops and truncations can have left it:
\* the live bits follow the pattern, the rest of the allocation is junk.
InitVec ==
    /\ width \in Widths
    /\ MAX_BITS \in MaxBitsChoices(width)
    /\ call = NoCall
    /\ domain = NoDomain
    /\ spanned = <<0, 0>>
    /\ AccIdle
    /\ junk \in BOOLEAN
    /\ \E len \in EdgeMarks(width, MAX_BITS), spare \in 0 .. 1 :
          /\ capacity = Span(width, 0, len)[1] + spare
          /\ pointer = IF capacity = 0
                       THEN BitPtrEmpty
                       ELSE SetLenPtr(width, Uninhabited(VecBase), len)
          /\ mem = [k \in 1 .. len |-> Pattern(k - 1)]
                       \o Fill0(capacity * width - len, junk)
    /\ vop = NoOp
    /\ old = NoVec
    /\ ret = NoRet
    /\ iter = NoIter
    /\ other = NoVec

\* The operation leaves v as the vector, and old as what it found.
Leave(v) ==
    /\ pointer' = v.pointer
    /\ capacity' = v.capacity
    /\ mem' = v.mem
    /\ old' = Bv

\* The record of an operation that left v.
Did(name, a, b, value, arg, v) ==
    [name |-> name, a |-> a, b |-> b, value |-> value, arg |-> arg,
     result |-> IF v.ok THEN "ok" ELSE "panic"]

\* What an operation on the vector leaves alone.
VecFrame == UNCHANGED <<width, MAX_BITS, call, domain, spanned, accVars,
                        thrVars, junk>>

VPush ==
    /\ vop = NoOp
    /\ \E value \in BOOLEAN :
          LET v == Push(width, MAX_BITS, Bv, value)
          IN  /\ Leave(v)
              /\ vop' = Did("push", 0, 0, value, <<>>, v)
    /\ UNCHANGED <<ret, iter, other>>
    /\ VecFrame

\* pop() from the vector as it starts, or right after a push.
VPop ==
    /\ \/ vop = NoOp
       \/ vop.name = "push" /\ vop.result = "ok"
    /\ LET v == Pop(width, Bv)
           len == BvLen(width, Bv)
       IN  /\ pointer' = v.pointer
           /\ capacity' = v.capacity
           /\ mem' = v.mem
           /\ old' = IF vop = NoOp THEN Bv ELSE old
           /\ ret' = [bits |-> IF IsEmpty(width, Bv)
                               THEN <<>>
                               ELSE <<At(Bv, len - 1)>>,
                      back |-> <<>>]
           /\ vop' = Did(IF vop = NoOp THEN "pop" ELSE "push_pop", 0, 0,
                         vop.value, <<>>, v)
    /\ UNCHANGED <<iter, other>>
    /\ VecFrame

\* reserve and reserve_exact; past the assertion they evaluate
\* self.pointer.tail().span(additional).
VReserve ==
    /\ vop = NoOp
    /\ \E additional \in EdgeMarks(width, MAX_BITS + 1), exact \in BOOLEAN :
          LET v == Reserve(width, MAX_BITS, Bv, additional, exact)
          IN  /\ Leave(v)
              /\ vop' = Did("reserve", additional, 0, exact, <<>>, v)
              /\ spanned' = IF v.ok
                            THEN ReserveSpan(width, Bv, additional)
                            ELSE spanned
    /\ UNCHANGED <<ret, iter, other>>
    /\ UNCHANGED <<width, MAX_BITS, call, domain, accVars, thrVars, junk>>

\* truncate(len) of the vector as it starts, or once more with the same
\* len right after a truncate.
VTruncate ==
    /\ \/ vop = NoOp
       \/ vop.name = "truncate" /\ vop.result = "ok"
    /\ \E len \in IF vop = NoOp
                   THEN Near(width, BvLen(width, Bv))
                   ELSE {vop.a} :
          LET v == Truncate(width, Bv, len)
          IN  /\ Leave(v)
              /\ vop' = Did(IF vop = NoOp THEN "truncate" ELSE "truncate_again",
                            len, 0, FALSE, <<>>, v)
    /\ UNCHANGED <<ret, iter, other>>
    /\ VecFrame

\* The lengths set_len is called with: around the length, the allocation
\* and MAX_BITS.
SetLens(w, maxbits, len, cap) ==
    Near(w, len) \cup {cap * w - 1, cap * w, cap * w + 1, maxbits, maxbits + 1}

VSetLen ==
    /\ vop = NoOp
    /\ \E len \in SetLens(width, MAX_BITS, BvLen(width, Bv), capacity)
                     \cap (0 .. MAX_BITS + 1) :
          LET v == VecSetLen(width, MAX_BITS, Bv, len)
          IN  /\ Leave(v)
              /\ vop' = Did("set_len", len, 0, FALSE, <<>>, v)
    /\ UNCHANGED <<ret, iter, other>>
    /\ VecFrame

VClear ==
    /\ vop = NoOp
    /\ LET v == Clear(width, MAX_BITS, Bv)
       IN  /\ Leave(v)
           /\ vop' = Did("clear", 0, 0, FALSE, <<>>, v)
    /\ UNCHANGED <<ret, iter, other>>
    /\ VecFrame

\* resize(new_len, value) of the vector as it starts, or of one that an
\* operation has just emptied, back to the length it had.
VResize ==
    /\ \/ vop = NoOp
       \/ /\ vop.name \in {"clear", "truncate", "pop", "remove", "shl"}
          /\ vop.result = "ok"
          /\ IsEmpty(width, Bv)
    /\ \E new_len \in IF vop = NoOp
                       THEN Near(width, BvLen(width, Bv))
                                \cup {MAX_BITS, MAX_BITS + 1}
                       ELSE {BvLen(width, old)},
          value \in BOOLEAN :
          LET v == Resize(width, MAX_BITS, Bv, new_len, value)
          IN  /\ pointer' = v.pointer
              /\ capacity' = v.capacity
              /\ mem' = v.mem
              /\ old' = IF vop = NoOp THEN Bv ELSE old
              /\ vop' = Did(IF vop = NoOp THEN "resize" ELSE "refill",
                            new_len, 0, value, <<>>, v)
    /\ UNCHANGED <<ret, iter, other>>
    /\ VecFrame

VRemove ==
    /\ vop = NoOp
    /\ \E index \in Near(width, BvLen(width, Bv)) :
          LET v == Remove(width, Bv, index)
          IN  /\ Leave(v)
              /\ vop' = Did("remove", index, 0, FALSE, <<>>, v)
              /\ ret' = [bits |-> IF v.ok THEN <<At(Bv, index)>> ELSE <<>>,
                         back |-> <<>>]
    /\ UNCHANGED <<iter, other>>
    /\ VecFrame

VInsert ==
    /\ vop = NoOp
    /\ \E index \in Near(width, BvLen(width, Bv)), value \in BOOLEAN :
          LET v == Insert(width, MAX_BITS, Bv, index, value)
          IN  /\ Leave(v)
              /\ vop' = Did("insert", index, 0, value, <<>>, v)
    /\ UNCHANGED <<ret, iter, other>>
    /\ VecFrame

VSplitOff ==
    /\ vop = NoOp
    /\ \E at \in Near(width, BvLen(width, Bv)) :
          LET s == SplitOff(width, MAX_BITS, Bv, at)
          IN  /\ Leave(s.self)
              /\ other' = s.out
              /\ vop' = Did("split_off", at, 0, FALSE, <<>>,
                            [s.self EXCEPT !.ok = s.self.ok /\ s.out.ok])
    /\ UNCHANGED <<ret, iter>>
    /\ VecFrame

\* bv <<= shamt on the vector as it starts, or right after bv >>= shamt.
VShl ==
    /\ \/ vop = NoOp
       \/ vop.name = "shr" /\ vop.result = "ok"
    /\ \E shamt \in IF vop = NoOp
                     THEN Near(width, BvLen(width, Bv))
                     ELSE {vop.a} :
          LET v == ShlAssign(width, MAX_BITS, Bv, shamt)
          IN  /\ pointer' = v.pointer
              /\ capacity' = v.capacity
              /\ mem' = v.mem
              /\ old' = IF vop = NoOp THEN Bv ELSE old
              /\ vop' = Did(IF vop = NoOp THEN "shl" ELSE "shr_shl",
                            shamt, 0, FALSE, <<>>, v)
    /\ UNCHANGED <<ret, iter, other>>
    /\ VecFrame

VShr ==
    /\ vop = NoOp
    /\ \E shamt \in Near(width, MAX_BITS - BvLen(width, Bv)) :
          LET v == ShrAssign(width, MAX_BITS, Bv, shamt)
          IN  /\ Leave(v)
              /\ vop' = Did("shr", shamt, 0, FALSE, <<>>, v)
    /\ UNCHANGED <<ret, iter, other>>
    /\ VecFrame

\* Where the slices cloned start: at the front and around the first
\* element boundary.
SliceStarts(w, len) == {0, 1, w - 1, w, w + 1} \cap (0 .. len)

\* Where they end: at once, a bit on, around the boundary, at the end.
SliceEnds(w, len, a) == {a, a + 1, w, w + 1, len - 1, len} \cap (a .. len)

\* self[a .. b].to_owned(): other is the vector made, self is not touched.
VToOwned ==
    /\ vop = NoOp
    /\ \E a \in SliceStarts(width, BvLen(width, Bv)) :
          \E b \in SliceEnds(width, BvLen(width, Bv), a) :
              LET made == FromBitslice(width, MAX_BITS, Bv, a, b)
              IN  /\ Leave(Bv)
                  /\ other' = made
                  /\ vop' = Did("to_owned", a, b, FALSE, <<>>, made)
    /\ UNCHANGED <<ret, iter>>
    /\ VecFrame

NextVec ==
    \/ VToOwned
    \/ VSetLen
    \/ VPush
    \/ VPop
    \/ VReserve
    \/ VTruncate
    \/ VClear
    \/ VResize
    \/ VRemove
    \/ VInsert
    \/ VSplitOff
    \/ VShl
    \/ VShr

SpecVec == InitVec /\ [][NextVec]_vars

\* How many bits are taken from either end of a Drain or a Splice.
MaxTake == 1

\* The lengths of the replacements spliced into a range of r bits of a
\* vector of len bits: none, one, as many, one more, more than the vector.
StreamLens(r, len) == {0, 1, r, r + 1, len + 1}

\* Where the ranges drained and spliced start: at the front, inside the
\* first element, at the first element boundary.
Starts(w, len) == {0, 1, w} \cap (0 .. len)

\* Where they end: at once, a bit on, past the first element boundary, at
\* the end of the vector, and beyond it.
Ends(w, len, from) == {from, from + 1, w + 1, len, len + 1}

\* The vector, the iterator and the record that drain(from .. upto) leaves.
StartDrain(name, from, upto, stream, hinted) ==
    LET len == BvLen(width, Bv)
        v == IF DrainPanics(len, from, upto)
             THEN Panic(Bv)
             ELSE VecSetLen(width, MAX_BITS, Bv, from)
    IN  /\ Leave(v)
        /\ iter' = IF v.ok
                   THEN [DrainOf(len, from, upto) EXCEPT !.kind = name,
                                                         !.splice = stream]
                   ELSE NoIter
        /\ vop' = [Did(name, from, upto, hinted, stream, v)
                      EXCEPT !.result = IF v.ok THEN "live" ELSE "panic"]

VDrain ==
    /\ vop = NoOp
    /\ \E from \in Starts(width, BvLen(width, Bv)) \cup {BvLen(width, Bv)} :
          \E upto \in Ends(width, BvLen(width, Bv), from) \cup {0} :
              StartDrain("drain", from, upto, <<>>, FALSE)
    /\ UNCHANGED <<ret, other>>
    /\ VecFrame

\* VecBit::splice(from .. upto, replacement): the Drain of the range and
\* the replacement, nothing spliced yet.
VSplice ==
    /\ vop = NoOp
    /\ \E from \in Starts(width, BvLen(width, Bv)) :
          \E upto \in Ends(width, BvLen(width, Bv), from) :
              \/ \E n \in StreamLens(upto - from, BvLen(width, Bv)) :
                     StartDrain("splice", from, upto, Stream(n), TRUE)
              \/ StartDrain("splice", from, upto, Stream(upto - from + 1),
                            FALSE)
    /\ UNCHANGED <<ret, other>>
    /\ VecFrame

\* Iterator::next of Drain and of Splice: the bit at the front of the
\* range; a Splice then pushes the next bit of its replacement, if any.
IterNext ==
    /\ vop.result = "live"
    /\ iter.front < iter.back
    /\ Len(ret.bits) < MaxTake
    /\ LET v == IF iter.kind = "splice" /\ iter.splice # <<>>
                THEN Push(width, MAX_BITS, Bv, Head(iter.splice))
                ELSE Bv
       IN  /\ pointer' = v.pointer
           /\ capacity' = v.capacity
           /\ mem' = v.mem
           /\ ret' = [ret EXCEPT !.bits = Append(ret.bits, At(Bv, iter.front))]
           /\ iter' = [iter EXCEPT !.front = iter.front + 1,
                                   !.splice = IF iter.splice = <<>>
                                              THEN <<>>
                                              ELSE Tail(iter.splice)]
           /\ vop' = [vop EXCEPT !.result = IF v.ok THEN "live" ELSE "panic"]
    /\ UNCHANGED <<old, other>>
    /\ VecFrame

\* DoubleEndedIterator::next_back of Drain and of Splice: the bit at the
\* back of the range.
IterNextBack ==
    /\ vop.result = "live"
    /\ iter.front < iter.back
    /\ Len(ret.back) < MaxTake
    /\ ret' = [ret EXCEPT !.back = Append(ret.back, At(Bv, iter.back - 1))]
    /\ iter' = [iter EXCEPT !.back = iter.back - 1]
    /\ UNCHANGED <<pointer, capacity, mem, vop, old, other>>
    /\ VecFrame

\* The Drain or the Splice goes out of scope.
IterDrop ==
    /\ vop.result = "live"
    /\ LET v == IF iter.kind = "splice"
                THEN SpliceDrop(width, MAX_BITS, Bv, iter, iter.splice,
                                vop.value)
                ELSE DrainDrop(width, MAX_BITS, Bv, iter)
       IN  /\ pointer' = v.pointer
           /\ capacity' = v.capacity
           /\ mem' = v.mem
           /\ vop' = [vop EXCEPT !.result = IF v.ok THEN "ok" ELSE "panic"]
    /\ iter' = NoIter
    /\ UNCHANGED <<old, ret, other>>
    /\ VecFrame

NextSplice ==
    \/ VDrain
    \/ VSplice
    \/ IterNext
    \/ IterNextBack
    \/ IterDrop

\* The element widths Drain and Splice are run on: their code reads the
\* width only through push and the pointer, so the two narrowest stand for
\* all four.
DrainWidths == {8, 16}

InitSplice ==
    /\ InitVec
    /\ width \in DrainWidths

SpecSplice == InitSplice /\ [][NextSplice]_vars

(***************************************************************************)
(* Arithmetic on vectors (src/src/vec.rs)                                  *)
(***************************************************************************)

\* crate::rca1(a, b, c): one step of a ripple-carry adder, the sum bit and
\* the carry out.
rca1(a, b, c) ==
    <<(a # b) # c, (a /\ b) \/ (a /\ c) \/ (b /\ c)>>

\* A sequence of bits, last to first.
Reverse(bits) == [k \in 1 .. Len(bits) |-> bits[Len(bits) + 1 - k]]

\* The loop of add_assign from its k-th step on with the carry c: the bits
\* of a, last to first, are zipped with those of b and then with false;
\* each sum bit is pushed on the stack, and the carry after the last.
RECURSIVE Ripple(_, _, _, _)
Ripple(a, b, k, c) ==
    IF k = Len(a) THEN IF c THEN <<TRUE>> ELSE <<>>
    ELSE LET r == rca1(a[Len(a) - k],
                       IF k < Len(b) THEN b[Len(b) - k] ELSE FALSE,
                       c)
         IN  <<r[1]>> \o Ripple(a, b, k + 1, r[2])

\* The end of add_assign: the stack is unwound into self.
Unwind(w, maxbits, v, stack) ==
    IF ~stack.ok THEN Panic(v)
    ELSE Extend(w, maxbits, Clear(w, maxbits, v), Reverse(Content(w, stack)))

\* add_assign once self is the longer: the sum bits are pushed on a stack
\* made with_capacity(self.len()).
AddLonger(w, maxbits, v, addend) ==
    Unwind(w, maxbits, v,
           PushAll(w, maxbits, WithCapacityVec(w, BvLen(w, v)),
                   Ripple(Content(w, v), Content(w, addend), 0, FALSE)))

\* add_assign that takes the shorter operand as it comes, without the swap.
AddAssignNoSwap(w, maxbits, v, addend) ==
    IF ~v.ok \/ ~addend.ok THEN Panic(v)
    ELSE AddLonger(w, maxbits, v, addend)

\* AddAssign::add_assign(addend): a longer addend is swapped with self.
AddAssign(w, maxbits, v, addend) ==
    IF ~v.ok \/ ~addend.ok THEN Panic(v)
    ELSE IF BvLen(w, addend) > BvLen(w, v)
    THEN AddLonger(w, maxbits, addend, v)
    ELSE AddLonger(w, maxbits, v, addend)

\* SliceBit::not_any(): no live bit is set.
NotAny(w, v) == \A i \in 0 .. BvLen(w, v) - 1 : ~At(v, i)

\* Not::not: every live bit is inverted.
VecNot(w, v) ==
    [v EXCEPT !.mem = [k \in 1 .. Len(v.mem) |->
                          IF k <= BvLen(w, v) THEN ~v.mem[k] ELSE v.mem[k]]]

\* Neg::neg: an empty or all-zero vector is returned as it is; any other is
\* inverted and has one added.
Neg(w, maxbits, v) ==
    IF ~v.ok THEN v
    ELSE IF IsEmpty(w, v) \/ NotAny(w, v) THEN v
    ELSE AddAssign(w, maxbits, VecNot(w, v), FromIter(w, maxbits, <<TRUE>>))

\* subtrahend[.. diff].set_all(sign)
SetFront(w, v, diff, sign) ==
    LET Sign(x, i) == SetAt(w, x, i, sign)
    IN  ForRange(Sign, 0, diff, v)

\* The subtrahend shifted right by diff and its new bits set to its sign,
\* the first bit it had.
SignExtend(w, maxbits, s, diff) ==
    SetFront(w, ShrAssign(w, maxbits, s, diff), diff, At(s, 0))

\* The end of sub_assign: a sum longer than the operands has its carry
\* shifted out.
DropCarry(w, maxbits, sum, oldlen) ==
    IF sum.ok /\ BvLen(w, sum) > oldlen
    THEN ShlAssign(w, maxbits, sum, 1)
    ELSE sum

\* sub_assign once the operands have one length: they are added.
SubSum(w, maxbits, v, s) ==
    DropCarry(w, maxbits, AddAssign(w, maxbits, v, s), BvLen(w, v))

\* sub_assign from the negated subtrahend s on: a shorter minuend is
\* zero-extended, a shorter subtrahend sign-extended.
SubNegated(w, maxbits, v, s) ==
    IF BvLen(w, s) > BvLen(w, v)
    THEN SubSum(w, maxbits,
                ShrAssign(w, maxbits, v, BvLen(w, s) - BvLen(w, v)), s)
    ELSE IF BvLen(w, v) > BvLen(w, s)
    THEN SubSum(w, maxbits, v,
                SignExtend(w, maxbits, s, BvLen(w, v) - BvLen(w, s)))
    ELSE SubSum(w, maxbits, v, s)

\* SubAssign::sub_assign(subtrahend): nothing is done for a subtrahend
\* without a set bit.
SubAssign(w, maxbits, v, subtrahend) ==
    IF ~v.ok \/ ~subtrahend.ok THEN Panic(v)
    ELSE IF NotAny(w, subtrahend) THEN v
    ELSE SubNegated(w, maxbits, v, Neg(w, maxbits, subtrahend))

\* The element widths arithmetic is run on.
ArithWidths == {8, 16}

\* The longest of the short operands.
MaxDigits == 3

\* The operands: every vector of up to MaxDigits bits, and each of them
\* behind a run of ones that ends two bits before the first element does.
Operands(w) ==
    LET short == UNION {[1 .. n -> BOOLEAN] : n \in 0 .. MaxDigits}
    IN  short \cup {Fill0(w - 2, TRUE) \o s : s \in short}

\* Two vectors collected from operands: self and the right-hand side.
InitArith ==
    /\ width \in ArithWidths
    /\ MAX_BITS = MAX_ELTS * width
    /\ call = NoCall
    /\ domain = NoDomain
    /\ spanned = <<0, 0>>
    /\ AccIdle
    /\ junk \in BOOLEAN
    /\ \E a \in Operands(width), b \in Operands(width) :
          LET lhs == FromIter(width, MAX_BITS, a)
          IN  /\ pointer = lhs.pointer
              /\ capacity = lhs.capacity
              /\ mem = lhs.mem
              /\ other = FromIter(width, MAX_BITS, b)
    /\ vop = NoOp
    /\ old = NoVec
    /\ ret = NoRet
    /\ iter = NoIter

\* self + other; ret.back holds the bits of other + self.
VAdd ==
    /\ vop = NoOp
    /\ LET v == AddAssign(width, MAX_BITS, Bv, other)
       IN  /\ Leave(v)
           /\ vop' = Did("add", 0, 0, FALSE, <<>>, v)
           /\ ret' = [bits |-> <<>>,
                      back |-> Content(width,
                                   AddAssign(width, MAX_BITS, other, Bv))]
    /\ UNCHANGED <<iter, other>>
    /\ VecFrame

\* self - other
VSub ==
    /\ vop = NoOp
    /\ LET v == SubAssign(width, MAX_BITS, Bv, other)
       IN  /\ Leave(v)
           /\ vop' = Did("sub", 0, 0, FALSE, <<>>, v)
    /\ UNCHANGED <<ret, iter, other>>
    /\ VecFrame

\* -self
VNeg ==
    /\ vop = NoOp
    /\ LET v == Neg(width, MAX_BITS, Bv)
       IN  /\ Leave(v)
           /\ vop' = Did("neg", 0, 0, FALSE, <<>>, v)
    /\ UNCHANGED <<ret, iter, other>>
    /\ VecFrame

NextArith ==
    \/ VAdd
    \/ VSub
    \/ VNeg

SpecArith == InitArith /\ [][NextArith]_vars

(***************************************************************************)
(* IntoIter (src/src/vec.rs)                                               *)
(***************************************************************************)

\* The calls made on one IntoIter before it is counted.
MaxIterCalls == 3

\* IntoIterator::into_iter(self): the vector moves into the iterator, and
\* the region starts as the vector's own pointer, the bits [front, back).
VIntoIter ==
    /\ vop = NoOp
    /\ Leave(Bv)
    /\ iter' = [NoIter EXCEPT !.kind = "into_iter",
                              !.back = BvLen(width, Bv)]
    /\ vop' = [Did("into_iter", 0, 0, FALSE, <<>>, Bv)
                  EXCEPT !.result = "live"]
    /\ UNCHANGED <<ret, other>>
    /\ VecFrame

\* An IntoIter that can take one more call; vop.a counts the calls made.
IntoIterLive ==
    /\ vop.name = "into_iter"
    /\ vop.result = "live"
    /\ vop.a < MaxIterCalls

\* The call yields the bit at position at; vop.arg keeps the positions
\* yielded and ret.bits the bits, in the order of the calls.
Yield(at) ==
    /\ ret' = [ret EXCEPT !.bits = Append(ret.bits, At(Bv, at))]
    /\ vop' = [vop EXCEPT !.a = vop.a + 1, !.arg = Append(vop.arg, at)]

\* IntoIter::next(): the slice iterator over the region yields its first
\* bit, and the region becomes what it has left.
IntoNext ==
    /\ IntoIterLive
    /\ iter.front < iter.back
    /\ Yield(iter.front)
    /\ iter' = [iter EXCEPT !.front = iter.front + 1]
    /\ UNCHANGED <<pointer, capacity, mem, old, other>>
    /\ VecFrame

\* IntoIter::next_back(): the same from the back of the region.
IntoNextBack ==
    /\ IntoIterLive
    /\ iter.front < iter.back
    /\ Yield(iter.back - 1)
    /\ iter' = [iter EXCEPT !.back = iter.back - 1]
    /\ UNCHANGED <<pointer, capacity, mem, old, other>>
    /\ VecFrame

\* IntoIter::nth(n): n bits are skipped and the next is yielded; an n that
\* overshoots empties the region and yields nothing.
IntoNth ==
    /\ IntoIterLive
    /\ \E n \in {1, width, iter.back - iter.front} :
          IF iter.front + n < iter.back
          THEN /\ Yield(iter.front + n)
               /\ iter' = [iter EXCEPT !.front = iter.front + n + 1]
          ELSE /\ vop' = [vop EXCEPT !.a = vop.a + 1]
               /\ iter' = [iter EXCEPT !.front = iter.back]
               /\ UNCHANGED ret
    /\ UNCHANGED <<pointer, capacity, mem, old, other>>
    /\ VecFrame

\* IntoIter::count(self) returns self.vecbit.len(); vop.a keeps what it
\* returned and vop.b what size_hint() and len() reported just before, the
\* length of the region.
IntoCount ==
    /\ vop.name = "into_iter"
    /\ vop.result = "live"
    /\ vop' = [vop EXCEPT !.name = "count",
                          !.result = "ok",
                          !.a = BvLen(width, Bv),
                          !.b = iter.back - iter.front]
    /\ UNCHANGED <<pointer, capacity, mem, old, ret, iter, other>>
    /\ VecFrame

NextIter ==
    \/ VIntoIter
    \/ IntoNext
    \/ IntoNextBack
    \/ IntoNth
    \/ IntoCount

SpecIter == InitSplice /\ [][NextIter]_vars

(***************************************************************************)
(* Two threads on one element, in the atomic build                         *)
(***************************************************************************)

Threads == {1, 2}

\* The operations each thread applies to its bit.
MaxThreadOps == 3

\* A read-modify-write that works on the value its thread saw at its
\* previous access, as a separate load and store would.
RmwStale(t) == thr[t].seen

\* The value the fetch_and, fetch_or or fetch_xor of thread t works on: the
\* element as it is at the instant of the write, the two being indivisible.
Rmw(t) == elem

\* Thread t has done one more operation, which left value in its bit.
Done(t, value) ==
    thr' = [thr EXCEPT ![t] = [place |-> thr[t].place, n |-> thr[t].n + 1,
                                 bit |-> value, seen |-> elem']]

ThreadSetBit ==
    /\ \E t \in Threads :
          /\ thr[t].n < MaxThreadOps
          /\ elem' = SetBit(order, width, Rmw(t), thr[t].place)
          /\ last' = Access("set_bit", thr[t].place, TRUE)
          /\ Done(t, TRUE)
    /\ UNCHANGED <<width, order, origin, ptrVars, vecVars>>

ThreadClearBit ==
    /\ \E t \in Threads :
          /\ thr[t].n < MaxThreadOps
          /\ elem' = ClearBit(order, width, Rmw(t), thr[t].place)
          /\ last' = Access("clear_bit", thr[t].place, FALSE)
          /\ Done(t, FALSE)
    /\ UNCHANGED <<width, order, origin, ptrVars, vecVars>>

ThreadInvertBit ==
    /\ \E t \in Threads :
          /\ thr[t].n < MaxThreadOps
          /\ elem' = InvertBit(order, width, Rmw(t), thr[t].place)
          /\ last' = Access("invert_bit", thr[t].place, ~thr[t].bit)
          /\ Done(t, ~thr[t].bit)
    /\ UNCHANGED <<width, order, origin, ptrVars, vecVars>>

\* One element shared by two views, each over its own bit of it.
InitAtomic ==
    /\ width \in Widths
    /\ MAX_BITS = MAX_ELTS * width
    /\ PtrIdle
    /\ order \in Orders
    /\ elem \in Seeds(width)
    /\ VecIdle
    /\ last = NoAccess
    /\ origin = elem
    /\ \E p1 \in Places(width), p2 \in Places(width) :
          /\ p1 # p2
          /\ thr = [t \in Threads |->
                      LET p == IF t = 1 THEN p1 ELSE p2
                      IN  [place |-> p, n |-> 0,
                           bit |-> Get(order, width, elem, p),
                           seen |-> elem]]

NextAtomic ==
    \/ ThreadSetBit
    \/ ThreadClearBit
    \/ ThreadInvertBit

SpecAtomic == InitAtomic /\ [][NextAtomic]_vars

(***************************************************************************)
(* Properties of the pointer and of its domain                             *)
(***************************************************************************)

\* The quotient of a by b, rounded up.
CeilDiv(a, b) == (a + b - 1) \div b

\* A pointer has been built and classified.
Classified == call.result = "ok" /\ domain # NoDomain

DomainTags ==
    {"Empty", "Minor", "Major", "PartialHead", "PartialTail", "Spanning"}

\* C1: the classification of a valid pointer is one of the six variants;
\* the head element, the interior and the tail element it carries, in this
\* order, are exactly the elements of as_access_slice; and it is Empty
\* exactly when the pointer has no live bit.
C1_DomainCoversElements ==
    Classified =>
        /\ domain.tag \in DomainTags
        /\ domain.head \o domain.body \o domain.tail
              = AsAccessSlice(width, pointer)
        /\ (domain.tag = "Empty") <=> (LenOf(width, pointer) = 0)
        /\ call.op \in {"new", "from_vec"} =>
              ((domain.tag = "Empty") <=> (call.bits = 0))

\* C1 witness: a pointer over three elements classified with a head
\* element, one interior element and a tail element.
C1_Witness ==
    /\ Classified
    /\ domain.tag = "Major"
    /\ Len(domain.body) = 1
    /\ Elements(pointer) = 3

\* C2 as stated: one touched element that is not fully live (head > 0 or
\* tail < width) is always Minor.
C2_Original ==
    (/\ Classified
     /\ Elements(pointer) = 1
     /\ (HeadOf(pointer) > 0 \/ TailOf(pointer) < width))
        => domain.tag = "Minor"

\* C2 amended: one touched element that reaches neither edge (head > 0 and
\* tail < width) is Minor, and so neither Major, PartialHead nor
\* PartialTail.
C2_SingleElementNeitherEdge ==
    (/\ Classified
     /\ Elements(pointer) = 1
     /\ HeadOf(pointer) > 0
     /\ TailOf(pointer) < width)
        => /\ domain.tag = "Minor"
           /\ domain.tag \notin {"Major", "PartialHead", "PartialTail"}

\* C2 witness: one element, live strictly inside both edges.
C2_Witness ==
    /\ Classified
    /\ Elements(pointer) = 1
    /\ HeadOf(pointer) > 0
    /\ TailOf(pointer) < width
    /\ domain.tag = "Minor"

\* C3: for a pointer with live bits and any element count from one up,
\* head = 0 and tail = width is Spanning; head > 0 and tail = width is
\* PartialHead with the first element partial and the other elements - 1
\* in the interior; head = 0 and tail < width is PartialTail with the first
\* elements - 1 in the interior and the last element partial.
C3_EdgeShapesByHeadAndTail ==
    (Classified /\ LenOf(width, pointer) > 0) =>
        LET h == HeadOf(pointer)
            t == TailOf(pointer)
            data == AsAccessSlice(width, pointer)
        IN  /\ Elements(pointer) >= 1
            /\ (h = 0 /\ t = width) =>
                  /\ domain.tag = "Spanning"
                  /\ domain.body = data
            /\ (h > 0 /\ t = width) =>
                  /\ domain.tag = "PartialHead"
                  /\ domain.h = h
                  /\ domain.head = <<data[1]>>
                  /\ domain.body = Tail(data)
                  /\ Len(domain.body) = Elements(pointer) - 1
            /\ (h = 0 /\ t < width) =>
                  /\ domain.tag = "PartialTail"
                  /\ domain.t = t
                  /\ domain.tail = <<data[Len(data)]>>
                  /\ domain.body = Front(data)
                  /\ Len(domain.body) = Elements(pointer) - 1

\* C3 witness: the single u32 with head 4 and 28 live bits is PartialHead
\* with no full element after it.
C3_Witness ==
    /\ Classified
    /\ call.op = "new"
    /\ width = 32
    /\ call.head = 4
    /\ call.bits = 28
    /\ domain.tag = "PartialHead"
    /\ domain.body = <<>>

\* C4: with head > 0 and tail < width, one touched element is Minor with
\* that head and tail, and n >= 2 touched elements are Major with that head
\* and tail, the first and last elements as edges and n - 2 interior
\* elements; u8, head 1, 6 bits is Minor(1, 7) and u16, head 1, 28 bits is
\* Major(1, 13) with an empty interior.
C4_MinorAndMajor ==
    (/\ Classified
     /\ HeadOf(pointer) > 0
     /\ TailOf(pointer) < width
     /\ Elements(pointer) >= 1) =>
        LET h == HeadOf(pointer)
            t == TailOf(pointer)
            n == Elements(pointer)
            data == AsAccessSlice(width, pointer)
        IN  /\ n = 1 => domain = Minor(h, data[1], t)
            /\ n >= 2 =>
                  /\ domain.tag = "Major"
                  /\ domain.h = h
                  /\ domain.t = t
                  /\ domain.head = <<data[1]>>
                  /\ domain.tail = <<data[n]>>
                  /\ Len(domain.body) = n - 2
            /\ (call.op = "new" /\ width = 8 /\ call.head = 1
                  /\ call.bits = 6) =>
                  /\ domain.tag = "Minor"
                  /\ domain.h = 1
                  /\ domain.t = 7
            /\ (call.op = "new" /\ width = 16 /\ call.head = 1
                  /\ call.bits = 28) =>
                  /\ domain.tag = "Major"
                  /\ domain.h = 1
                  /\ domain.t = 13
                  /\ domain.body = <<>>

\* C4 witness: the two u16 with head 1 and 28 live bits, classified.
C4_Witness ==
    /\ Classified
    /\ call.op = "new"
    /\ width = 16
    /\ call.head = 1
    /\ call.bits = 28
    /\ domain.tag = "Major"

\* C5: span(s, len) of an index s and len > 0 is ceil((s + len) / w)
\* elements and the tail ((s + len - 1) mod w) + 1, which is w and not 0
\* when s + len is a multiple of w; span(s, 0) is no element and the tail s.
C5_SpanClosedForm ==
    (call.op \in {"new", "with_capacity"} /\ domain = NoDomain) =>
        LET s == call.head
            len == call.bits
        IN  /\ len > 0 =>
                  /\ spanned[1] = CeilDiv(s + len, width)
                  /\ spanned[2] = ((s + len - 1) % width) + 1
            /\ (len > 0 /\ (s + len) % width = 0) => spanned[2] = width
            /\ len = 0 => spanned = <<0, s>>
            /\ call.op = "with_capacity" =>
                  /\ capacity >= CeilDiv(len, width)
                  /\ Capacity(width, capacity) >= len

\* C5 witness: a span from a non-zero index that ends exactly on the edge
\* of its second element.
C5_Witness ==
    /\ call.op = "new"
    /\ domain = NoDomain
    /\ call.head > 0
    /\ call.head + call.bits = 2 * width
    /\ spanned = <<2, width>>

\* C6: a pointer built from (base, head, length) reads back head() = head
\* and len() = length, and its elements() and tail() are span(head,
\* length), also for length 0 and for head + length a multiple of the
\* width; and span(head(), len()), as the classification computes it,
\* gives elements() and tail() again.
C6_RoundTrip ==
    (call.op = "new" /\ call.result = "ok") =>
        /\ pointer.ptr = call.base
        /\ HeadOf(pointer) = call.head
        /\ LenOf(width, pointer) = call.bits
        /\ spanned = <<Elements(pointer), TailOf(pointer)>>
        /\ call.bits = 0 => Elements(pointer) = 0

\* C6 witness: span recomputed by the classification of a pointer whose
\* head is not 0 and whose last bit is the last bit of its second element.
C6_Witness ==
    /\ Classified
    /\ call.op = "new"
    /\ call.head > 0
    /\ call.head + call.bits = 2 * width
    /\ spanned = <<2, width>>

\* C7 as stated: BitPtr::new fails, and leaves no pointer, when the base is
\* null or misaligned, when span(head, bits) gives more than MAX_ELTS
\* elements or when bits exceeds MAX_BITS; from_vec panics when the vector
\* has more than MAX_ELTS elements and otherwise gives the vector over all
\* its elements, with len = elements * width.
C7_Original ==
    /\ (/\ call.op = "new"
        /\ (\/ call.base = 0
            \/ call.base % Alignment(width) # 0
            \/ spanned[1] > MAX_ELTS
            \/ call.bits > MAX_BITS))
          => (call.result = "err" /\ pointer = NoPtr)
    /\ call.op = "from_vec" =>
          IF call.len > MAX_ELTS
          THEN call.result = "panic" /\ pointer = NoPtr
          ELSE /\ call.result = "ok"
               /\ HeadOf(pointer) = 0
               /\ Elements(pointer) = call.len
               /\ LenOf(width, pointer) = call.len * width
               /\ capacity >= call.len

\* C7 amended: as stated for BitPtr::new; from_vec panics when the vector
\* has more than MAX_ELTS elements or when its elements * width bits exceed
\* MAX_BITS, and otherwise gives the vector over all its elements, with
\* len = elements * width.
C7_ConstructionFailsFast ==
    /\ (/\ call.op = "new"
        /\ (\/ call.base = 0
            \/ call.base % Alignment(width) # 0
            \/ spanned[1] > MAX_ELTS
            \/ call.bits > MAX_BITS))
          => (call.result = "err" /\ pointer = NoPtr)
    /\ call.op = "from_vec" =>
          IF call.len > MAX_ELTS \/ call.len * width > MAX_BITS
          THEN call.result = "panic" /\ pointer = NoPtr
          ELSE /\ call.result = "ok"
               /\ HeadOf(pointer) = 0
               /\ Elements(pointer) = call.len
               /\ LenOf(width, pointer) = call.len * width
               /\ capacity >= call.len

\* C7 witness: from_vec refused for a vector of MAX_ELTS + 1 elements.
C7_Witness ==
    /\ call.op = "from_vec"
    /\ call.len = MAX_ELTS + 1
    /\ call.result = "panic"

(***************************************************************************)
(* Properties of the access operations and of the cursors                  *)
(***************************************************************************)

\* The number an element holds: the sum of 2^k over its 1 bits.
RECURSIVE Value(_)
Value(bits) ==
    IF bits = {} THEN 0
    ELSE LET k == CHOOSE x \in bits : TRUE
         IN  2 ^ k + Value(bits \ {k})

\* get(q) of the element as it is and as the last access found it.
GetNow(q) == Get(order, width, elem, q)
GetBefore(q) == Get(order, width, last.before, q)

\* The indices, other than the one last addressed, whose bit reads as
\* before the last access.
OthersUnchanged ==
    \A q \in (0 .. width - 1) \ {last.place} : GetNow(q) = GetBefore(q)

\* What every single access leaves behind.
AccessEffect ==
    /\ elem \subseteq 0 .. width - 1
    /\ last.op = "set_bit" => GetNow(last.place) /\ OthersUnchanged
    /\ last.op = "clear_bit" => ~GetNow(last.place) /\ OthersUnchanged
    /\ last.op = "invert_bit" =>
          /\ GetNow(last.place) = ~GetBefore(last.place)
          /\ OthersUnchanged
    /\ last.op = "set" => GetNow(last.place) = last.value /\ OthersUnchanged

\* An invert_bit that follows an invert_bit of the same index gives the
\* element back as it was before the first.
InvertTwice ==
    (/\ last.op = "invert_bit"
     /\ last'.op = "invert_bit"
     /\ last'.place = last.place)
        => elem' = last.before

\* C8: after set_bit(p) get(p) is true, after clear_bit(p) it is false,
\* invert_bit(p) flips it and a second invert_bit(p) restores the element,
\* set(p, v) makes get(p) = v, and each of them leaves every bit but the
\* one p addresses as it was; for every element value, index and order.
C8_SingleBitAccess == [](AccessEffect) /\ [][InvertTwice]_vars

\* C8 witness: an element of mixed bits after an invert_bit that turned
\* its bit on.
C8_Witness ==
    /\ last.op = "invert_bit"
    /\ GetNow(last.place)
    /\ ~GetBefore(last.place)
    /\ \E q \in 0 .. width - 1 : q # last.place /\ GetNow(q)
    /\ \E q \in 0 .. width - 1 : q # last.place /\ ~GetNow(q)

\* The indices of the first n bits of the element that read 1.
Ones(n) == {i \in 0 .. n - 1 : GetNow(i)}

\* C10: the mask of an index has exactly one bit, inside the element, and
\* no other index has the same mask; BigEndian gives index i bit w - 1 - i
\* and LittleEndian gives it bit i; so a u8 filled with the bits
\* 1,1,1,1,0,0,0,0 holds 0xF0 in BigEndian order, and one given the six
\* bits 0,0,0,1,1,1 in LittleEndian order holds 0b0011_1000.
C10_MaskIsBijection ==
    /\ last.op \in {"mask", "push"} =>
          /\ Cardinality(last.mask) = 1
          /\ last.mask \subseteq 0 .. width - 1
          /\ \A j \in (0 .. width - 1) \ {last.place} :
                Mask(order, width, j) # last.mask
          /\ order = "BigEndian" => last.mask = {width - 1 - last.place}
          /\ order = "LittleEndian" => last.mask = {last.place}
    /\ (/\ last.op = "push"
        /\ width = 8
        /\ order = "BigEndian"
        /\ last.place = 7
        /\ Ones(8) = 0 .. 3) => Value(elem) = 240
    /\ (/\ last.op = "push"
        /\ width = 8
        /\ order = "LittleEndian"
        /\ last.place = 5
        /\ Ones(6) = 3 .. 5) => Value(elem) = 56

\* C10 witness: the u8 of the from_iter example, four 1 bits and four 0
\* bits pushed in BigEndian order.
C10_Witness ==
    /\ last.op = "push"
    /\ width = 8
    /\ order = "BigEndian"
    /\ last.place = 7
    /\ Ones(8) = 0 .. 3
    /\ Value(elem) = 240

\* C9: whatever the interleaving of the two threads, every bit of the
\* shared element is what the operations of the thread that owns it leave
\* in it, in that thread's order, and a bit no thread owns is as it was
\* when the threads started: no operation of one thread undoes or loses an
\* operation of the other.
C9_NoLostUpdate ==
    thr # <<>> =>
        /\ elem \subseteq 0 .. width - 1
        /\ \A t \in Threads : GetNow(thr[t].place) = thr[t].bit
        /\ \A q \in (0 .. width - 1) \ {thr[t].place : t \in Threads} :
              GetNow(q) = Get(order, width, origin, q)

\* C9 witness: both threads have run at least two operations each and
\* both bits differ from what they were at the start.
C9_Witness ==
    /\ thr # <<>>
    /\ \A t \in Threads :
          /\ thr[t].n >= 2
          /\ thr[t].bit # Get(order, width, origin, thr[t].place)
          /\ GetNow(thr[t].place) = thr[t].bit

(***************************************************************************)
(* Whole-mask access                                                       *)
(***************************************************************************)

\* C11: set_bits(mask) leaves old OR mask in the element: every bit that is
\* 1 in the mask is 1 afterwards and every other bit keeps its value;
\* clear_bits(mask) leaves old AND mask: every bit that is 0 in the mask is
\* 0 afterwards and every other bit keeps its value.
C11_MaskedWrite ==
    /\ last.op = "set_bits" =>
          \A i \in 0 .. width - 1 :
              IF i \in last.mask
              THEN i \in elem
              ELSE (i \in elem) <=> (i \in last.before)
    /\ last.op = "clear_bits" =>
          \A i \in 0 .. width - 1 :
              IF i \in last.mask
              THEN (i \in elem) <=> (i \in last.before)
              ELSE i \notin elem

\* C11 witness: clear_bits with a mask of some of the bits on an element
\* that had 1 bits on both sides of it, and 1 bits are left.
C11_Witness ==
    /\ last.op = "clear_bits"
    /\ last.mask = Places(width)
    /\ last.before \ last.mask # {}
    /\ elem # {}
    /\ elem # last.before

(***************************************************************************)
(* The vector's operations                                                 *)
(***************************************************************************)

\* The live bits of the vector as the last operation found it.
OldLen == BvLen(width, old)

\* C12: push(v) on a vector of n < MAX_BITS bits does not panic and gives
\* n + 1 bits, bit n being v and the bits before it unchanged, also when n
\* is 0 or a multiple of the width; pop() on a non-empty vector returns
\* the last bit and leaves the bits before it; push(v) then pop() returns
\* v and restores the contents; pop() on an empty vector returns nothing
\* and leaves it empty.
C12_PushPop ==
    /\ (vop.name = "push" /\ OldLen < MAX_BITS) =>
          /\ vop.result = "ok"
          /\ BvLen(width, Bv) = OldLen + 1
          /\ At(Bv, OldLen) = vop.value
          /\ BitsOf(Bv, 0, OldLen) = Content(width, old)
    /\ (vop.name = "pop" /\ OldLen > 0) =>
          /\ vop.result = "ok"
          /\ ret.bits = <<At(old, OldLen - 1)>>
          /\ BvLen(width, Bv) = OldLen - 1
          /\ Content(width, Bv) = BitsOf(old, 0, OldLen - 1)
    /\ (vop.name = "pop" /\ OldLen = 0) =>
          /\ vop.result = "ok"
          /\ ret.bits = <<>>
          /\ IsEmpty(width, Bv)
    /\ vop.name = "push_pop" =>
          /\ vop.result = "ok"
          /\ ret.bits = <<vop.value>>
          /\ Content(width, Bv) = Content(width, old)

\* A bit was pushed onto a vector that filled its elements, and popped.
C12_Witness ==
    /\ vop.name = "push_pop"
    /\ OldLen > 0
    /\ OldLen % width = 0
    /\ vop.value
    /\ ret.bits = <<TRUE>>

\* C13: a push on a vector of MAX_BITS bits panics and leaves the vector
\* as it was: its pointer, its capacity and its memory.
C13_PushAtMaxChangesNothing ==
    (vop.name = "push" /\ OldLen = MAX_BITS) =>
        /\ vop.result = "panic"
        /\ pointer = old.pointer
        /\ capacity = old.capacity
        /\ mem = old.mem

\* C14: reserve(additional) and reserve_exact(additional) on a vector of
\* any length, one that fills its last element and the empty one included:
\* with len + additional <= MAX_BITS they do not panic, leave the length and
\* the live bits, and leave capacity() >= len + additional; beyond MAX_BITS
\* they panic.
C14_Reserve ==
    vop.name = "reserve" =>
        IF OldLen + vop.a <= MAX_BITS
        THEN /\ vop.result = "ok"
             /\ BvLen(width, Bv) = OldLen
             /\ Content(width, Bv) = Content(width, old)
             /\ capacity * width >= OldLen + vop.a
        ELSE vop.result = "panic"

\* A vector that filled its elements had to grow for the bits reserved.
C14_Witness ==
    /\ vop.name = "reserve"
    /\ vop.result = "ok"
    /\ OldLen > 0
    /\ OldLen % width = 0
    /\ vop.a > 0
    /\ capacity > old.capacity
    /\ capacity * width >= OldLen + vop.a

\* C15: no operation on the vector makes capacity() smaller, and a vector
\* that was emptied and resized to the length it had keeps its capacity
\* and its allocation.
C15_CapacityNeverDecreases ==
    /\ (vop.name # "none" /\ vop.result = "ok") =>
           capacity >= old.capacity
    /\ (vop.name = "refill" /\ vop.result = "ok") =>
           /\ capacity = old.capacity
           /\ pointer.ptr = old.pointer.ptr

\* C18: split_off(at) with at <= len leaves in self the bits before at and
\* returns a vector of the bits from at on, in order, for at = 0, at = len
\* and every value between; with at > len it panics.
C18_SplitOffContents ==
    vop.name = "split_off" =>
        IF vop.a <= OldLen
        THEN /\ vop.result = "ok"
             /\ Content(width, Bv) = BitsOf(old, 0, vop.a)
             /\ Content(width, other) = BitsOf(old, vop.a, OldLen)
        ELSE vop.result = "panic"

\* A vector of more than an element was split inside its first element.
C18_Witness ==
    /\ vop.name = "split_off"
    /\ vop.result = "ok"
    /\ vop.a = 1
    /\ OldLen > width
    /\ BvLen(width, Bv) = 1
    /\ BvLen(width, other) = OldLen - 1

\* C19: split_off(at) leaves the capacity of self as it was, for every at
\* from 0 to len.
C19_SplitOffKeepsCapacity ==
    (vop.name = "split_off" /\ vop.result = "ok") =>
        capacity = old.capacity

\* What bv >>= vop.a leaves of a vector: vop.a zero bits, then the old
\* bits in order.
ShiftedRight ==
    /\ vop.result = "ok"
    /\ BvLen(width, Bv) = OldLen + vop.a
    /\ BitsOf(Bv, 0, vop.a) = Fill0(vop.a, FALSE)
    /\ BitsOf(Bv, vop.a, OldLen + vop.a) = Content(width, old)

\* What bv <<= vop.a leaves: the old bits from vop.a on, or nothing.
ShiftedLeft ==
    /\ vop.result = "ok"
    /\ IF vop.a < OldLen
       THEN Content(width, Bv) = BitsOf(old, vop.a, OldLen)
       ELSE IsEmpty(width, Bv)

\* C20 as stated: bv >>= k gives n + k bits, k zero bits and then the old
\* bits, for every k; bv <<= k gives the old bits from k on, and the empty
\* vector for k >= n; bv >>= k and then bv <<= k restores the vector.
C20_Original ==
    /\ vop.name = "shr" => ShiftedRight
    /\ vop.name = "shl" => ShiftedLeft
    /\ vop.name = "shr_shl" =>
           (vop.result = "ok" /\ Content(width, Bv) = Content(width, old))

\* C20, amended: the same for every k with n + k <= MAX_BITS; bv >>= k
\* pushes k bits, and past MAX_BITS the push panics.
C20_ShiftsWithinMaxBits ==
    /\ (vop.name = "shr" /\ OldLen + vop.a <= MAX_BITS) => ShiftedRight
    /\ (vop.name = "shr" /\ OldLen + vop.a > MAX_BITS) =>
           vop.result = "panic"
    /\ vop.name = "shl" => ShiftedLeft
    /\ vop.name = "shr_shl" =>
           (vop.result = "ok" /\ Content(width, Bv) = Content(width, old))

\* A vector that filled its elements was shifted right by a bit, into a
\* new element, and back.
C20_Witness ==
    /\ vop.name = "shr_shl"
    /\ vop.a = 1
    /\ OldLen > 0
    /\ OldLen % width = 0
    /\ Content(width, Bv) = Content(width, old)

\* The bits taken so far from the front and from the back of the range
\* vop.a .. vop.b are the old bits at its ends, in the order taken.
YieldedOldBits ==
    /\ ret.bits = BitsOf(old, vop.a, vop.a + Len(ret.bits))
    /\ \A i \in 1 .. Len(ret.back) : ret.back[i] = At(old, vop.b - i)

C17_Splice ==
    vop.name = "splice" =>
        /\ vop.result # "panic" => YieldedOldBits
        /\ vop.result = "ok" =>
               Content(width, Bv) =
                   BitsOf(old, 0, vop.a) \o vop.arg \o BitsOf(old, vop.b, OldLen)

(***************************************************************************)
(* Arithmetic                                                              *)
(***************************************************************************)

\* The number a sequence of bits spells, its first bit the most
\* significant.
RECURSIVE Unsigned(_)
Unsigned(bits) ==
    IF bits = <<>> THEN 0
    ELSE 2 * Unsigned(SubSeq(bits, 1, Len(bits) - 1))
             + (IF bits[Len(bits)] THEN 1 ELSE 0)

\* The longer of the lengths of the two operands.
OperandWidth ==
    IF OldLen > BvLen(width, other) THEN OldLen ELSE BvLen(width, other)

\* C21: a + b spells value(a) + value(b), in max(len a, len b) bits, or in
\* one more exactly when the sum does not fit in them; b + a gives the
\* same bits.
C21_Addition ==
    vop.name = "add" =>
        /\ vop.result = "ok"
        /\ Unsigned(Content(width, Bv)) =
               Unsigned(Content(width, old)) + Unsigned(Content(width, other))
        /\ BvLen(width, Bv) =
               IF Unsigned(Content(width, old))
                      + Unsigned(Content(width, other)) >= 2 ^ OperandWidth
               THEN OperandWidth + 1
               ELSE OperandWidth
        /\ ret.back = Content(width, Bv)

\* A shorter vector had a longer one added, and the sum carried out of the
\* top bit into a new element.
C21_Witness ==
    /\ vop.name = "add"
    /\ vop.result = "ok"
    /\ OldLen > 0
    /\ OldLen < BvLen(width, other)
    /\ BvLen(width, other) = width
    /\ BvLen(width, Bv) = width + 1

\* C22: M - S has max(len M, len S) bits and spells
\* (value(M) - value(S)) mod 2^w, the operands read as unsigned.
C22_Subtraction ==
    vop.name = "sub" =>
        /\ vop.result = "ok"
        /\ BvLen(width, Bv) = OperandWidth
        /\ Unsigned(Content(width, Bv)) =
               (Unsigned(Content(width, old))
                    - Unsigned(Content(width, other))) % (2 ^ OperandWidth)

(***************************************************************************)
(* Slices made into vectors                                                *)
(***************************************************************************)

\* C23: to_owned / from_bitslice on the bits [a, b) of a vector, also when
\* a lies inside an element, gives a vector of b - a bits whose bit i is
\* the source's bit a + i, stored from the first bit of its first element
\* on, in ceil((b - a) / width) elements.
C23_ToOwned ==
    vop.name = "to_owned" =>
        /\ vop.result = "ok"
        /\ BvLen(width, other) = vop.b - vop.a
        /\ \A i \in 0 .. vop.b - vop.a - 1 : At(other, i) = At(old, vop.a + i)
        /\ HeadOf(other.pointer) = 0
        /\ Elements(other.pointer) = CeilDiv(vop.b - vop.a, width)
        /\ Bv = old

\* A slice that starts inside the first element and ends in the second
\* was made into a vector.
C23_Witness ==
    /\ vop.name = "to_owned"
    /\ vop.result = "ok"
    /\ vop.a = 1
    /\ vop.b = width + 1
    /\ BvLen(width, other) = width
    /\ Elements(other.pointer) = 1

(***************************************************************************)
(* Consuming iteration                                                     *)
(***************************************************************************)

\* C24: whatever calls were made on an IntoIter, count() returns the bits
\* it has left, the number size_hint() and len() report; and the bits it
\* yielded are the vector's, each position at most once.
C24_CountIsRemaining ==
    /\ vop.name = "count" =>
           /\ vop.a = vop.b
           /\ vop.a = iter.back - iter.front
    /\ vop.name \in {"into_iter", "count"} =>
           /\ Len(ret.bits) = Len(vop.arg)
           /\ \A i \in 1 .. Len(vop.arg) :
                  /\ vop.arg[i] \in 0 .. OldLen - 1
                  /\ ret.bits[i] = At(old, vop.arg[i])
                  /\ \A j \in 1 .. Len(vop.arg) :
                         i # j => vop.arg[i] # vop.arg[j]

(***************************************************************************)
(* Lengths set by hand                                                     *)
(***************************************************************************)

\* The operation left the vector as it found it.
Untouched ==
    /\ pointer = old.pointer
    /\ capacity = old.capacity
    /\ mem = old.mem

\* C25: set_len(len) panics and changes nothing when len exceeds MAX_BITS
\* or capacity(); otherwise the length is len and the allocation and the
\* stored elements are as they were.  truncate(len) sets the length to len
\* when len < len() and changes nothing otherwise, so a second truncate
\* with the same len changes nothing.
C25_SetLenAndTruncate ==
    /\ vop.name = "set_len" =>
           IF vop.a > MAX_BITS \/ vop.a > Capacity(width, old.capacity)
           THEN vop.result = "panic" /\ Untouched
           ELSE /\ vop.result = "ok"
                /\ BvLen(width, Bv) = vop.a
                /\ mem = old.mem
                /\ capacity = old.capacity
                /\ pointer.ptr = old.pointer.ptr
                /\ HeadOf(pointer) = HeadOf(old.pointer)
    /\ vop.name = "truncate" =>
           /\ vop.result = "ok"
           /\ IF vop.a < OldLen
              THEN /\ BvLen(width, Bv) = vop.a
                   /\ mem = old.mem
                   /\ capacity = old.capacity
                   /\ pointer.ptr = old.pointer.ptr
              ELSE Untouched
    /\ vop.name = "truncate_again" => (vop.result = "ok" /\ Untouched)

\* set_len grew a vector over bits it had never held, up to the end of
\* its allocation.
C25_Witness ==
    /\ vop.name = "set_len"
    /\ vop.result = "ok"
    /\ vop.a > OldLen
    /\ vop.a = Capacity(width, capacity)
    /\ BvLen(width, Bv) = vop.a

(***************************************************************************)
(* Tails                                                                   *)
(***************************************************************************)

\* What Tail::new accepts.
ValidTail(t) == 0 < t /\ t <= width

\* The tail a pointer holds: a valid Tail when it has live bits, and its
\* head when it has none.
TailHeld(bp) ==
    IF LenOf(width, bp) > 0
    THEN ValidTail(TailOf(bp))
    ELSE TailOf(bp) = HeadOf(bp)

\* C26 as stated: every tail span returns and every tail a pointer of the
\* vector holds is a valid Tail, 0 < tail <= width, runs of no bits and
\* pointers without live bits included.
C26_Original ==
    /\ ValidTail(TailOf(pointer))
    /\ (vop.name = "reserve" /\ vop.result = "ok") => ValidTail(spanned[2])

\* C26: the tail span returns for a run of len > 0 bits is a valid Tail,
\* 0 < tail <= width, and for a run of no bits it is the start itself; the
\* tail of a pointer made by construction, set_len, incr_tail and decr_tail
\* is a valid Tail when the pointer has live bits, and is its head (0 for
\* a vector) when it has none; span started from a tail equal to width
\* does not fail and counts the filled element.
C26_TailsAreValid ==
    /\ TailHeld(pointer)
    /\ TailHeld(other.pointer)
    /\ (vop.name = "reserve" /\ vop.result = "ok") =>
           /\ vop.a > 0 =>
                  /\ ValidTail(spanned[2])
                  /\ spanned[1] = CeilDiv(TailOf(old.pointer) + vop.a, width)
                  /\ spanned[2] =
                         ((TailOf(old.pointer) + vop.a - 1) % width) + 1
           /\ vop.a = 0 => spanned = <<0, TailOf(old.pointer)>>
    /\ (/\ vop.name = "reserve"
        /\ TailOf(old.pointer) = width
        /\ OldLen + vop.a <= MAX_BITS) => vop.result = "ok"

\* reserve on a vector filled to the end of its last element: span started
\* from the tail width and ran into further elements.
C26_Witness ==
    /\ vop.name = "reserve"
    /\ vop.result = "ok"
    /\ TailOf(old.pointer) = width
    /\ vop.a > width
    /\ vop.a % width # 0
    /\ spanned = <<CeilDiv(width + vop.a, width), vop.a % width>>

====
